---- MODULE Spec2Model ----
(***************************************************************************)
(* Verification model of the rag-multimodal backend: the agent             *)
(* orchestrator's tool-calling loop, the Groq LLM client's message         *)
(* formatting, the tool registry with its two tool kinds, and the Jina     *)
(* embedding client's rate limiter.                                        *)
(***************************************************************************)
EXTENDS Integers, Sequences, FiniteSets, TLC

VARIABLES
    \* ---- ToolRegistry / MCPClient ----
    _tools,             \* ToolRegistry._tools: insertion-ordered dict, as a sequence of tools
    session,            \* MCPClient.session (None or a session handle)
    mcpTools,           \* MCPClient.tools: the tools discovered on the server
    nextObj,            \* identity of the next tool object constructed
    regLog,             \* history: every tool passed to _register_tool, in order
    lastOp,             \* history: the outcome of the last registry operation
    \* ---- AgentOrchestrator.process_query ----
    pc,                 \* position of the process_query coroutine
    callerMessages,     \* the list object the caller passed as `messages`
    messages,           \* the local `messages` list of process_query
    extracted_tool_calls, \* tool calls of the current turn
    tool_results,       \* `tool_results` of _execute_tools
    toolIdx,            \* index of the tool call _execute_tools is at
    _formatted_tools,   \* AgentOrchestrator._formatted_tools cache
    outcome,            \* what process_query gave its caller
    llmCalls,           \* history: number of chat_completion calls started
    execLog,            \* history: the tool calls handed to the registry, in order, with their turn
    inFlight,           \* history: tool executions started and not yet returned
    turns,              \* history: number of tool-call turns so far
    userQuery,          \* the query passed to process_query
    lastResp,           \* history: the response that ended the loop
    toolsLog,           \* history: process_query calls, format_tools calls, tool lists given to the LLM
    messagesRef,        \* the list object the local `messages` refers to
    \* ---- GroqClient.format_tool_message applied on its own ----
    fmtIn,              \* the tool_calls list passed in
    fmtOut,             \* the message returned
    \* ---- JinaEmbeddingClient ----
    now,                \* the event loop's clock, in ticks
    api_key,            \* JinaEmbeddingClient.api_key; None when __init__ raised
    rate_limit,         \* JinaEmbeddingClient.rate_limit
    semValue,           \* free permits of JinaEmbeddingClient._rate_limiter
    semWaiters,         \* the calls waiting for a permit, first come first
    _last_request_time, \* JinaEmbeddingClient._last_request_time
    embeds,             \* the embed invocations: position, items, results
    apiCalls,           \* the _make_api_call coroutines of each invocation
    dispatchLog,        \* history: the times of the last two requests sent to the API
    \* ---- retry_with_backoff around JinaEmbeddingClient.embed ----
    max_retries,        \* JinaEmbeddingClient.max_retries
    rtPc,               \* position of the decorated embed call
    attemptLog,         \* history: how each attempt of the embed body ended
    delays,             \* history: the backoff sleeps, in seconds
    rtRaised,           \* the exception the decorated call raised, None if none
    \* ---- RetrievalService / ANNRetriever / Reranker ----
    mvIndex,            \* MultiVectorStore._index: chunk id -> token vectors
    rq,                 \* the retrieve_chunks call: position, arguments, locals
    annOp,              \* history: the last ANNRetriever.retrieve call and its outcome
    rerankLog,          \* history: the last Reranker.rerank call and its result
    toolOut,            \* what RetrieveDocumentsTool.execute gave its caller
    \* ---- IngestionService / DocumentSQLStore ----
    docStatus,          \* DocumentModel.status of every document in the database
    ing,                \* the ingest_unprocessed_documents calls: position, locals, result
    running,            \* the call whose coroutine holds the event loop, 0 if none
    completedBy,        \* history: per document, the calls whose ingest_document returned
    \* ---- BatchProcessor.process_batch ----
    bp                  \* the process_batch call: arguments, tasks, results

regVars == <<_tools, session, mcpTools, nextObj, regLog, lastOp>>
agentVars == <<pc, callerMessages, messages, extracted_tool_calls, tool_results,
               toolIdx, _formatted_tools, outcome, llmCalls, execLog, inFlight,
               turns, userQuery, lastResp, toolsLog, messagesRef>>
fmtVars == <<fmtIn, fmtOut>>
embVars == <<now, api_key, rate_limit, semValue, semWaiters, _last_request_time, embeds, apiCalls,
             dispatchLog>>
retryVars == <<max_retries, rtPc, attemptLog, delays, rtRaised>>
retrVars == <<mvIndex, rq, annOp, rerankLog, toolOut>>
ingVars == <<docStatus, ing, running, completedBy>>
batchVars == <<bp>>
ragVars == <<retryVars, retrVars, ingVars, batchVars>>
vars == <<regVars, agentVars, fmtVars, embVars, ragVars>>

\* what the actions of one component leave alone
notAgentVars == <<regVars, fmtVars, embVars, ragVars>>
notRegVars == <<agentVars, fmtVars, embVars, ragVars>>
notFmtVars == <<agentVars, regVars, embVars, ragVars>>
notEmbVars == <<agentVars, regVars, fmtVars, ragVars>>
notRetryVars == <<agentVars, regVars, fmtVars, embVars, retrVars, ingVars, batchVars>>
notRetrVars == <<agentVars, regVars, fmtVars, embVars, retryVars, ingVars, batchVars>>
notIngVars == <<agentVars, regVars, fmtVars, embVars, retryVars, retrVars, batchVars>>
notBatchVars == <<agentVars, regVars, fmtVars, embVars, retryVars, retrVars, ingVars>>

(***************************************************************************)
(* Bounds                                                                  *)
(***************************************************************************)
MaxCalls == 2       \* tool calls per LLM response
MaxTurns == 2       \* tool-call turns per process_query
MaxRuns == 2        \* process_query calls on one orchestrator
MaxRegs == 4        \* tool objects constructed in the registry specification

(***************************************************************************)
(* Python values                                                           *)
(***************************************************************************)
None == "<None>"

SeqsUpTo(S, n) == UNION { [1..k -> S] : k \in 0..n }

Range(s) == { s[i] : i \in DOMAIN s }

\* a Python dict with string keys, and a JSON value that is not a dict
Dict(items) == [type |-> "dict", items |-> items]
EmptyItems == [k \in {} |-> ""]
NotADict == [type |-> "list", items |-> EmptyItems]

(***************************************************************************)
(* Exceptions and results of a call                                        *)
(***************************************************************************)
\* invoked lists the tool objects executed, session_calls counts the
\* session.call_tool calls made on the way
Raise(type, message) ==
    [raised |-> type, message |-> message, result |-> None, invoked |-> <<>>, session_calls |-> 0]
Return(value) ==
    [raised |-> None, message |-> "", result |-> value, invoked |-> <<>>, session_calls |-> 0]

\* AgenticException and its subclasses (core/exceptions.py)
AgenticExceptionTypes == {"AgenticException", "LLMError", "MCPConnectionError", "ToolExecutionError"}

(***************************************************************************)
(* Tools: MCPToolAdapter and RetrieveDocumentsTool                         *)
(***************************************************************************)
RETRIEVE_DOCUMENTS == "retrieve_documents"
TEXT_PREVIEW_LENGTH == 500

McpToolNames == {"list_docs", RETRIEVE_DOCUMENTS}
ToolNames == McpToolNames \cup {"missing_tool"}
Descriptions == {"d1", "d2"}

\* a tool object; obj is its identity
MCPToolAdapter(tool_name, tool_description, tool_schema, obj) ==
    [name |-> tool_name, kind |-> "mcp", description |-> tool_description,
     input_schema |-> tool_schema, obj |-> obj]

RetrieveDocumentsTool(obj) ==
    [name |-> RETRIEVE_DOCUMENTS, kind |-> "native",
     description |-> "Retrieve relevant document chunks",
     input_schema |-> "{query: string}", obj |-> obj]

\* MCPClient.is_connected
is_connected(sess) == sess # None

\* MCPClient.convert_result_to_text: a missing result or one without content is "",
\* otherwise the text chunks joined by newlines
RECURSIVE JoinLines(_)
JoinLines(chunks) ==
    IF Len(chunks) = 0 THEN ""
    ELSE IF Len(chunks) = 1 THEN chunks[1]
    ELSE chunks[1] \o "\n" \o JoinLines(Tail(chunks))

convert_result_to_text(result) ==
    IF ~result.present \/ ~result.has_content THEN "" ELSE JoinLines(result.content)

\* what session.call_tool can do: raise, or return a result
McpResults ==
    { [present |-> FALSE, has_content |-> FALSE, content |-> <<>>],
      [present |-> TRUE, has_content |-> FALSE, content |-> <<>>],
      [present |-> TRUE, has_content |-> TRUE, content |-> <<>>],
      [present |-> TRUE, has_content |-> TRUE, content |-> <<"a.pdf">>],
      [present |-> TRUE, has_content |-> TRUE, content |-> <<"a.pdf", "b.pdf">>] }
NoMcpResult == [present |-> FALSE, has_content |-> FALSE, content |-> <<>>]
McpExt == { [raises |-> TRUE, value |-> NoMcpResult] } \cup { [raises |-> FALSE, value |-> r] : r \in McpResults }

\* the states of the object MCPClient.session refers to: a live session, one
\* whose initialize or list_tools failed, one whose transport cleanup closed
Sessions == {"session", "uninitialized", "closed"}
Connected(sess) == sess = "session"

\* MCPClient.call_tool: session.call_tool is awaited whenever self.session is
\* set; on a session that is not live it can only raise
call_tool(sess, ext) ==
    IF ~is_connected(sess) THEN Raise("MCPConnectionError", "Not connected to MCP server")
    ELSE IF ext.raises \/ ~Connected(sess)
    THEN [Raise("McpError", "transport") EXCEPT !.session_calls = 1]
    ELSE [Return(ext.value) EXCEPT !.session_calls = 1]

\* MCPToolAdapter.execute(**kwargs)
MCPToolAdapter_execute(tool, kwargs, sess, ext) ==
    IF ~is_connected(sess)
    THEN Raise("ToolExecutionError", "MCP client is not connected")
    ELSE LET r == call_tool(sess, ext) IN
         IF r.raised # None
         THEN [Raise("ToolExecutionError", "Failed to execute MCP tool")
                 EXCEPT !.session_calls = r.session_calls]
         ELSE [Return(convert_result_to_text(r.result))
                 EXCEPT !.session_calls = r.session_calls]

\* what retrieval_service.retrieve_chunks can do: raise, or return a list with
\* one entry per query; an entry is a dict with "chunks", or (no candidates) a list
Chunks ==
    { [chunk_name |-> "a.pdf", score |-> 12500, chunk_text |-> "alpha"],
      [chunk_name |-> "", score |-> 0, chunk_text |-> ""] }
RagEntries ==
    { [type |-> "list", chunks |-> <<>>] } \cup
    { [type |-> "dict", chunks |-> cs] : cs \in SeqsUpTo(Chunks, 1) }
RagExt ==
    { [raises |-> TRUE, value |-> <<>>] } \cup
    { [raises |-> FALSE, value |-> v] : v \in SeqsUpTo(RagEntries, 1) }

\* f"{score:.4f}" of a score held in units of 1/10000
Pad4(n) == IF n < 10 THEN "000" \o ToString(n)
           ELSE IF n < 100 THEN "00" \o ToString(n)
           ELSE IF n < 1000 THEN "0" \o ToString(n)
           ELSE ToString(n)
Fmt4f(score) == ToString(score \div 10000) \o "." \o Pad4(score % 10000)

\* one "Result i" block of RetrieveDocumentsTool.execute
ResultPart(i, chunk) ==
    LET head == "\n\nResult " \o ToString(i) \o " (relevance score: " \o Fmt4f(chunk.score) \o "):"
        doc == IF chunk.chunk_name # "" THEN "\n  Document: " \o chunk.chunk_name ELSE ""
        preview == IF Len(chunk.chunk_text) > TEXT_PREVIEW_LENGTH
                   THEN SubSeq(chunk.chunk_text, 1, TEXT_PREVIEW_LENGTH) \o "..."
                   ELSE chunk.chunk_text
        content == IF chunk.chunk_text # "" THEN "\n  Content: " \o preview ELSE ""
    IN head \o doc \o content

NoResultsText(query) == "No results found for query: " \o query

\* RetrieveDocumentsTool.execute(query, **kwargs), once its arguments are bound
RetrieveDocumentsTool_execute(tool, query, ext) ==
    IF ext.raises THEN Raise("ToolExecutionError", "Document retrieval failed")
    ELSE IF Len(ext.value) = 0 THEN Return(NoResultsText(query))
    ELSE IF ext.value[1].type # "dict"
         THEN \* list.get does not exist: AttributeError, caught by the except clause
              Raise("ToolExecutionError", "Document retrieval failed")
    ELSE LET query_result == ext.value[1].chunks IN
         IF Len(query_result) = 0 THEN Return(NoResultsText(query))
         ELSE Return(JoinLines(
                <<"Found " \o ToString(Len(query_result)) \o " results (reranked) for query: " \o query \o "\n">>
                \o [i \in 1..Len(query_result) |-> ResultPart(i, query_result[i])]))

\* the outcomes of the collaborator a tool calls
ExtOf(tool) == IF tool.kind = "mcp" THEN McpExt ELSE RagExt

(***************************************************************************)
(* ToolRegistry                                                            *)
(***************************************************************************)
\* positions of the entries of the dict with this key
Find(ts, name) == { i \in DOMAIN ts : ts[i].name = name }

\* mutant: setdefault, the first registration of a name wins
_register_tool_keepfirst(ts, tool) ==
    IF Find(ts, tool.name) # {} THEN ts ELSE Append(ts, tool)

\* ToolRegistry._register_tool: self._tools[tool.name] = tool
_register_tool(ts, tool) ==
    IF Find(ts, tool.name) # {}
    THEN [i \in DOMAIN ts |-> IF ts[i].name = tool.name THEN tool ELSE ts[i]]
    ELSE Append(ts, tool)

RECURSIVE RegisterAll(_, _)
RegisterAll(ts, toolSeq) ==
    IF toolSeq = <<>> THEN ts
    ELSE RegisterAll(_register_tool(ts, Head(toolSeq)), Tail(toolSeq))

\* ToolRegistry.register_internal_tools(service)
register_internal_tools(ts, service, obj0) ==
    IF service = "RetrievalService"
    THEN [raised |-> None, tools |-> _register_tool(ts, RetrieveDocumentsTool(obj0)),
          registered |-> <<RetrieveDocumentsTool(obj0)>>]
    ELSE [raised |-> None, tools |-> ts, registered |-> <<>>]

\* ToolRegistry.register_external_tools(mcp_client, tool_names)
register_external_tools(ts, mcp_tools, tool_names, obj0) ==
    LET tool_names_set == Range(tool_names)
        available_tool_names == { mcp_tools[i].name : i \in DOMAIN mcp_tools }
        missing_tools == tool_names_set \ available_tool_names
        InSet(t) == t.name \in tool_names_set
        filtered == IF tool_names # <<>> THEN SelectSeq(mcp_tools, InSet) ELSE mcp_tools
        wrapped == [i \in 1..Len(filtered) |->
                       MCPToolAdapter(filtered[i].name, filtered[i].description,
                                      filtered[i].parameters, obj0 + i - 1)]
    IN IF tool_names # <<>> /\ missing_tools # {}
       THEN [raised |-> "ValueError", tools |-> ts, registered |-> <<>>]
       ELSE [raised |-> None, tools |-> RegisterAll(ts, wrapped), registered |-> wrapped]

\* ToolRegistry.get_all_tools
get_all_tools(ts) == ts

\* binding **tool_args to the parameters of tool.execute
BindError(tool, tool_args) ==
    IF tool_args.type # "dict" THEN "argument after ** must be a mapping"
    ELSE IF tool.kind = "native" /\ "query" \notin DOMAIN tool_args.items
         THEN "execute() missing 1 required positional argument: 'query'"
    ELSE ""

\* tool.execute(**tool_args), dispatched on the class of the tool
ToolExecute(tool, tool_args, sess, ext) ==
    IF BindError(tool, tool_args) # ""
    THEN Raise("TypeError", BindError(tool, tool_args))
    ELSE [ (IF tool.kind = "mcp"
            THEN MCPToolAdapter_execute(tool, tool_args.items, sess, ext)
            ELSE RetrieveDocumentsTool_execute(tool, tool_args.items["query"], ext))
           EXCEPT !.invoked = <<tool.obj>> ]

NotFoundMessage(tool_name) == "Tool " \o tool_name \o " not found"

\* mutant: an unknown tool yields an empty result
execute_tool_default(ts, tool_name, tool_args, sess, ext) ==
    IF Find(ts, tool_name) = {}
    THEN Return("")
    ELSE ToolExecute(ts[CHOOSE i \in Find(ts, tool_name) : TRUE], tool_args, sess, ext)

\* ToolRegistry.execute_tool(tool_name, tool_args)
execute_tool(ts, tool_name, tool_args, sess, ext) ==
    IF Find(ts, tool_name) = {}
    THEN Raise("ToolExecutionError", NotFoundMessage(tool_name))
    ELSE ToolExecute(ts[CHOOSE i \in Find(ts, tool_name) : TRUE], tool_args, sess, ext)

(***************************************************************************)
(* The registry and the MCP client as a state machine                      *)
(***************************************************************************)
ArgDicts ==
    { Dict(EmptyItems), Dict([query |-> "q1"]), Dict([query |-> "q1", limit |-> "5"]),
      Dict([limit |-> "5"]), NotADict }

\* the tool lists an MCP server can announce
DiscoveredTools ==
    SeqsUpTo({ [name |-> n, description |-> d, parameters |-> "{}"] :
                 n \in McpToolNames, d \in Descriptions }, 2)

ToolNameLists == { <<>>, <<"list_docs">>, <<"missing_tool">>, <<"list_docs", RETRIEVE_DOCUMENTS>> }

NoOp == [op |-> "none", name |-> "", raised |-> None, message |-> "", result |-> None,
         invoked |-> <<>>, session_calls |-> 0, before |-> <<>>, registered |-> <<>>]

RegistryInit ==
    /\ _tools = <<>>
    /\ session = None
    /\ mcpTools = <<>>
    /\ nextObj = 1
    /\ regLog = <<>>
    /\ lastOp = NoOp

\* MCPClient.connect_to_server: the transport fails before the session exists,
\* or the session exists and initialize/list_tools fails, or all succeed
connect_to_server(sess, tools, how, discovered) ==
    IF how = "no_transport" THEN [raised |-> "MCPConnectionError", session |-> sess, tools |-> tools]
    ELSE IF how = "no_handshake" THEN [raised |-> "MCPConnectionError", session |-> "uninitialized", tools |-> tools]
    ELSE [raised |-> None, session |-> "session", tools |-> discovered]

ConnectToServer ==
    /\ session = None
    /\ \E how \in {"no_transport", "no_handshake", "ok"}, discovered \in DiscoveredTools :
         LET r == connect_to_server(session, mcpTools, how, discovered) IN
         /\ session' = r.session
         /\ mcpTools' = r.tools
         /\ lastOp' = [NoOp EXCEPT !.op = "connect", !.raised = r.raised, !.before = _tools]
    /\ UNCHANGED <<_tools, nextObj, regLog>>
    /\ UNCHANGED notRegVars

\* MCPClient.cleanup: the exit stack closes the transport; self.session is
\* not reset
cleanup(sess) == IF sess = None THEN None ELSE "closed"

Cleanup ==
    /\ lastOp.op # "cleanup"
    /\ session' = cleanup(session)
    /\ lastOp' = [NoOp EXCEPT !.op = "cleanup", !.before = _tools]
    /\ UNCHANGED <<_tools, mcpTools, nextObj, regLog>>
    /\ UNCHANGED notRegVars

RegisterInternalTools ==
    /\ nextObj <= MaxRegs
    /\ \E service \in {"RetrievalService", "EvaluationService"} :
         LET r == register_internal_tools(_tools, service, nextObj) IN
         /\ _tools' = r.tools
         /\ regLog' = regLog \o r.registered
         /\ nextObj' = nextObj + Len(r.registered)
         /\ lastOp' = [NoOp EXCEPT !.op = "register_internal", !.raised = r.raised,
                                    !.before = _tools, !.registered = r.registered]
    /\ UNCHANGED <<session, mcpTools>>
    /\ UNCHANGED notRegVars

RegisterExternalTools ==
    /\ nextObj + Len(mcpTools) <= MaxRegs + 1
    /\ \E tool_names \in ToolNameLists :
         LET r == register_external_tools(_tools, mcpTools, tool_names, nextObj) IN
         /\ _tools' = r.tools
         /\ regLog' = regLog \o r.registered
         /\ nextObj' = nextObj + Len(r.registered)
         /\ lastOp' = [NoOp EXCEPT !.op = "register_external", !.raised = r.raised,
                                    !.before = _tools, !.registered = r.registered]
    /\ UNCHANGED <<session, mcpTools>>
    /\ UNCHANGED notRegVars

\* the collaborator outcomes that can meet a call of execute_tool
ExtFor(ts, tool_name) ==
    IF Find(ts, tool_name) = {} THEN McpExt
    ELSE ExtOf(ts[CHOOSE i \in Find(ts, tool_name) : TRUE])

ExecuteTool ==
    /\ \E tool_name \in ToolNames, tool_args \in ArgDicts :
         \E ext \in ExtFor(_tools, tool_name) :
            LET r == execute_tool(_tools, tool_name, tool_args, session, ext) IN
            lastOp' = [op |-> "execute", name |-> tool_name, raised |-> r.raised,
                       message |-> r.message, result |-> r.result, invoked |-> r.invoked,
                       session_calls |-> r.session_calls,
                       before |-> _tools, registered |-> <<>>]
    /\ UNCHANGED <<_tools, session, mcpTools, nextObj, regLog>>
    /\ UNCHANGED notRegVars

(***************************************************************************)
(* GroqClient                                                              *)
(***************************************************************************)
\* getattr(message, "tool_calls", None); an absent or None attribute is the
\* missing field, and both are falsy like the empty list
GetToolCalls(message) ==
    IF "tool_calls" \in DOMAIN message THEN message.tool_calls ELSE <<>>

\* GroqClient.has_tool_calls
has_tool_calls(response) ==
    IF response.choices = <<>> THEN FALSE
    ELSE GetToolCalls(response.choices[1]) # <<>>

\* GroqClient.extract_tool_calls
extract_tool_calls(response) ==
    IF response.choices = <<>> THEN <<>>
    ELSE LET tool_calls == GetToolCalls(response.choices[1]) IN
         [i \in 1..Len(tool_calls) |->
             [id |-> tool_calls[i].id,
              name |-> tool_calls[i].function.name,
              arguments |-> tool_calls[i].function.arguments]]

\* mutant: message.content without the `or ""`
extract_text_content_raw(response) ==
    IF response.choices = <<>> THEN "" ELSE response.choices[1].content

\* GroqClient.extract_text_content: message.content or ""
extract_text_content(response) ==
    IF response.choices = <<>> THEN ""
    ELSE IF response.choices[1].content \in {None, ""} THEN ""
    ELSE response.choices[1].content

\* GroqClient.format_tool_message
format_tool_message(tool_calls) ==
    [role |-> "assistant",
     content |-> None,
     tool_calls |-> [i \in 1..Len(tool_calls) |->
                       [id |-> tool_calls[i].id,
                        type |-> "function",
                        function |-> [name |-> tool_calls[i].name,
                                      arguments |-> tool_calls[i].arguments]]]]

\* GroqClient.format_tool_result_message
format_tool_result_message(tool_call_id, tool_name, tool_result) ==
    [role |-> "tool", tool_call_id |-> tool_call_id, name |-> tool_name, content |-> tool_result]

\* GroqClient.format_tools
format_tools(tools) ==
    [i \in 1..Len(tools) |->
        [type |-> "function",
         function |-> [name |-> tools[i].name,
                       description |-> tools[i].description,
                       parameters |-> tools[i].input_schema]]]

(***************************************************************************)
(* What the chat-completion API can answer                                 *)
(***************************************************************************)
\* json.loads on the argument strings the model draws
JsonStrings == {"{}", "{\"query\": \"q1\"}", "[]", "{oops"}
json_loads(text) ==
    CASE text = "{}" -> [raised |-> None, value |-> Dict(EmptyItems)]
      [] text = "{\"query\": \"q1\"}" -> [raised |-> None, value |-> Dict([query |-> "q1"])]
      [] text = "[]" -> [raised |-> None, value |-> NotADict]
      [] OTHER -> [raised |-> "JSONDecodeError", value |-> NotADict]

\* the (name, arguments) pairs the LLM asks for
CallChoices ==
    { [name |-> "list_docs", arguments |-> "{}"],
      [name |-> RETRIEVE_DOCUMENTS, arguments |-> "{\"query\": \"q1\"}"],
      [name |-> RETRIEVE_DOCUMENTS, arguments |-> "{}"],
      [name |-> "missing_tool", arguments |-> "{}"],
      [name |-> "list_docs", arguments |-> "{oops"] }

\* the id the API gives the k-th call of one response
CallId(k) == "call_" \o ToString(k)

ToolCallObjs(choices) ==
    [k \in 1..Len(choices) |->
        [id |-> CallId(k),
         function |-> [name |-> choices[k].name, arguments |-> choices[k].arguments]]]

ToolCallLists ==
    { ToolCallObjs(choices) : choices \in SeqsUpTo(CallChoices, MaxCalls) }

Contents == {None, "", "answer"}

Responses ==
    { [choices |-> <<>>] }
    \cup { [choices |-> <<[content |-> c]>>] : c \in Contents }
    \cup { [choices |-> <<[content |-> c, tool_calls |-> tcs]>>] :
             c \in {None, "answer"}, tcs \in ToolCallLists }

(***************************************************************************)
(* JinaEmbeddingClient: rate limiter, API calls, embed                     *)
(*                                                                         *)
(* Time is the event loop's clock in ticks.  The coroutines take no time   *)
(* between suspension points: the clock advances only when every coroutine *)
(* is sleeping or awaiting a response.                                     *)
(***************************************************************************)
NumEmbeds == 1      \* concurrent embed invocations on the client
MaxItems == 2       \* items per embed invocation
MaxTime == 6        \* last tick of the clock

TicksPerSecond == 2
StartTime == 2      \* loop.time() when the first embed is called
RateLimits == {1, 2}

\* JinaEmbeddingClient._min_request_interval = 1.0 / rate_limit
_min_request_interval(rate) == TicksPerSecond \div rate

EmbedIds == 1..NumEmbeds
CallKinds == {"sv", "mv"}       \* return_multivector False / True
CallKeys == EmbedIds \X CallKinds

\* an embedable passed to embed (task retrieval.query): an id and a text
ItemIds == {"a", "b", ""}
Embedable(id) == [id |-> id, text |-> "text of " \o id]

\* the lists passed to embed.  The client only copies ids and texts, so the
\* lists are the prefixes of two streams: a, b, a, b, ... and b, then an
\* embedable without a usable id, then a, a, ...
ItemStreams == {"ab", "b-"}
ItemAt(stream, i) ==
    IF stream = "ab" THEN Embedable(IF i % 2 = 1 THEN "a" ELSE "b")
    ELSE Embedable(IF i = 1 THEN "b" ELSE IF i = 2 THEN "" ELSE "a")
ItemLists == { [i \in 1..k |-> ItemAt(stream, i)] : stream \in ItemStreams, k \in 0..MaxItems }

\* JinaEmbeddingClient.__init__: api_key or settings.jina_api_key
ApiKeys == {None, "jina_key"}
ApiKeyOf(api_key_arg, jina_api_key) == IF api_key_arg # None THEN api_key_arg ELSE jina_api_key

\* response.json() of a 2xx answer to a call of this kind
ApiData(kind) ==
    IF kind = "sv" THEN [data |-> <<[embedding |-> "vector"]>>]
    ELSE [data |-> <<[embeddings |-> "token vectors"]>>]

\* mutant: the result is labelled with the text instead of the id
_build_embedding_result_textid(id, text, sv_data_resp, mv_data_resp) ==
    [id |-> text,
     single_vector |-> [id |-> text, embedding |-> sv_data_resp.data[1].embedding, text |-> text],
     multi_vectors |-> [id |-> text, embeddings |-> mv_data_resp.data[1].embeddings, text |-> text]]

\* JinaEmbeddingClient._build_embedding_result
_build_embedding_result(id, text, sv_data_resp, mv_data_resp) ==
    [id |-> id,
     single_vector |-> [id |-> id, embedding |-> sv_data_resp.data[1].embedding, text |-> text],
     multi_vectors |-> [id |-> id, embeddings |-> mv_data_resp.data[1].embeddings, text |-> text]]

\* mutant: the empty list is not rejected
embed_precheck_noempty(key, embedables) ==
    IF key = None THEN "Jina API key not configured" ELSE None

\* the two checks at the top of embed: the message of the EmbeddingError
\* raised, None when both pass
embed_precheck(key, embedables) ==
    IF key = None THEN "Jina API key not configured"
    ELSE IF embedables = <<>> THEN "embedables list must not be empty"
    ELSE None

\* posts and answers count the requests sent and the responses received
NoCall == [pc |-> "none", wake |-> 0, posts |-> 0, answers |-> 0]
NoEmbed == [pc |-> "idle", items |-> <<>>, item |-> 0, results |-> <<>>, raised |-> None]

EmbedIdle ==
    /\ now = StartTime
    /\ api_key = "jina_key"
    /\ rate_limit = 1
    /\ semValue = 1
    /\ semWaiters = <<>>
    /\ _last_request_time = 0
    /\ embeds = [e \in EmbedIds |-> NoEmbed]
    /\ apiCalls = [c \in CallKeys |-> NoCall]
    /\ dispatchLog = <<>>

\* JinaEmbeddingClient.__init__
EmbedInit ==
    /\ now = StartTime
    /\ \E api_key_arg \in ApiKeys, jina_api_key \in ApiKeys :
         api_key = ApiKeyOf(api_key_arg, jina_api_key)
    /\ rate_limit \in RateLimits
    /\ semValue = rate_limit
    /\ semWaiters = <<>>
    /\ _last_request_time = 0
    /\ embeds = [e \in EmbedIds |-> NoEmbed]
    /\ apiCalls = [c \in CallKeys |-> NoCall]
    /\ dispatchLog = <<>>

\* client.post: the request leaves; the log keeps the last two send times
Post(log, time) == IF Len(log) < 2 THEN Append(log, time) ELSE <<log[2], time>>

\* the sleep of _rate_limit: the remainder of the interval, 0 for no sleep
SleepNeeded(current_time, last, interval) ==
    IF current_time - last < interval THEN interval - (current_time - last) ELSE 0

\* the body of _rate_limit once the permit is held: read the clock, then
\* either sleep or stamp _last_request_time, release and post the request
RateLimitBody(c) ==
    LET sleep == SleepNeeded(now, _last_request_time, _min_request_interval(rate_limit)) IN
    IF sleep > 0
    THEN /\ apiCalls' = [apiCalls EXCEPT ![c] = [@ EXCEPT !.pc = "sleeping", !.wake = now + sleep]]
         /\ semValue' = semValue - 1
         /\ UNCHANGED <<_last_request_time, dispatchLog>>
    ELSE /\ apiCalls' = [apiCalls EXCEPT ![c] = [@ EXCEPT !.pc = "posted", !.wake = 0, !.posts = @ + 1]]
         /\ _last_request_time' = now
         /\ dispatchLog' = Post(dispatchLog, now)
         /\ UNCHANGED semValue

\* mutant: only the single-vector call is made
EmbedSingleItem_svonly(cs, e) ==
    [c \in CallKeys |-> IF c[1] = e
                         THEN [cs[c] EXCEPT !.pc = IF c[2] = "sv" THEN "ready" ELSE "ok"]
                         ELSE cs[c]]

\* _embed_single_item up to its gather: the two API calls of the item start
EmbedSingleItem(cs, e) ==
    [c \in CallKeys |-> IF c[1] = e THEN [cs[c] EXCEPT !.pc = "ready"] ELSE cs[c]]

\* the loop of embed reaches item i: an embedable without id raises (embed
\* turns it into EmbeddingError), otherwise its two API calls start; past
\* the last item embed returns the results
EmbedLoop(e, em, i) ==
    IF i > Len(em.items)
    THEN /\ embeds' = [embeds EXCEPT ![e] = [em EXCEPT !.pc = "done"]]
         /\ apiCalls' = [c \in CallKeys |-> IF c[1] = e THEN [apiCalls[c] EXCEPT !.pc = "none"]
                                                      ELSE apiCalls[c]]
    ELSE IF em.items[i].id = ""
    THEN /\ embeds' = [embeds EXCEPT ![e] =
                         [em EXCEPT !.pc = "failed", !.raised = "EmbeddingError",
                                    !.item = i, !.results = <<>>]]
         /\ apiCalls' = [c \in CallKeys |-> IF c[1] = e THEN [apiCalls[c] EXCEPT !.pc = "none"]
                                                      ELSE apiCalls[c]]
    ELSE /\ embeds' = [embeds EXCEPT ![e] = [em EXCEPT !.item = i]]
         /\ apiCalls' = EmbedSingleItem(apiCalls, e)

\* embed(embedables) up to its first await: a missing key or an empty list
\* fails before anything else, otherwise the loop starts
Embed(e) ==
    /\ api_key # None          \* __init__ raised EmbeddingError: there is no client
    /\ embeds[e].pc = "idle"
    /\ \A d \in EmbedIds : d < e => embeds[d].pc # "idle"    \* invocations are numbered as they start
    /\ \A k \in CallKinds : apiCalls[<<e, k>>].pc = "none"
    /\ \E items \in ItemLists :
         IF embed_precheck(api_key, items) # None
         THEN /\ embeds' = [embeds EXCEPT ![e] =
                              [NoEmbed EXCEPT !.pc = "failed", !.raised = "EmbeddingError",
                                              !.items = items]]
              /\ UNCHANGED apiCalls
         ELSE EmbedLoop(e, [NoEmbed EXCEPT !.pc = "running", !.items = items], 1)
    /\ UNCHANGED <<now, api_key, rate_limit, semValue, semWaiters, _last_request_time, dispatchLog>>
    /\ UNCHANGED notEmbVars

\* _make_api_call enters _rate_limit: take a permit, or queue for one
CallAcquire(c) ==
    /\ apiCalls[c].pc = "ready"
    \* gather starts its coroutines in argument order: single-vector first
    /\ c[2] = "mv" => apiCalls[<<c[1], "sv">>].pc # "ready"
    /\ IF semValue > 0 /\ semWaiters = <<>>
       THEN RateLimitBody(c) /\ UNCHANGED semWaiters
       ELSE /\ apiCalls' = [apiCalls EXCEPT ![c] = [@ EXCEPT !.pc = "waitsem"]]
            /\ semWaiters' = Append(semWaiters, c)
            /\ UNCHANGED <<semValue, _last_request_time, dispatchLog>>
    /\ UNCHANGED <<now, api_key, rate_limit, embeds>>
    /\ UNCHANGED notEmbVars

\* the first waiter gets the permit that was released
SemGranted(c) ==
    /\ apiCalls[c].pc = "waitsem"
    /\ semWaiters # <<>>
    /\ Head(semWaiters) = c
    /\ semValue > 0
    /\ semWaiters' = Tail(semWaiters)
    /\ RateLimitBody(c)
    /\ UNCHANGED <<now, api_key, rate_limit, embeds>>
    /\ UNCHANGED notEmbVars

\* asyncio.sleep returns: stamp _last_request_time, release, post the request
SleepDone(c) ==
    /\ apiCalls[c].pc = "sleeping"
    /\ now >= apiCalls[c].wake
    /\ apiCalls' = [apiCalls EXCEPT ![c] = [@ EXCEPT !.pc = "posted", !.wake = 0, !.posts = @ + 1]]
    /\ _last_request_time' = now
    /\ semValue' = semValue + 1
    /\ dispatchLog' = Post(dispatchLog, now)
    /\ UNCHANGED <<now, api_key, rate_limit, semWaiters, embeds>>
    /\ UNCHANGED notEmbVars

\* the API answers: 2xx, or raise_for_status / a transport error raises
Response(c) ==
    /\ apiCalls[c].pc = "posted"
    /\ \E ok \in BOOLEAN :
         apiCalls' = [apiCalls EXCEPT ![c] = [@ EXCEPT !.pc = IF ok THEN "ok" ELSE "err",
                                                       !.answers = @ + 1]]
    /\ UNCHANGED <<now, api_key, rate_limit, semValue, semWaiters, _last_request_time, embeds, dispatchLog>>
    /\ UNCHANGED notEmbVars

\* gather returns both responses: build the result, then go on with the
\* next item
GatherReturns(e) ==
    /\ embeds[e].pc = "running"
    /\ \A k \in CallKinds : apiCalls[<<e, k>>].pc = "ok"
    /\ LET em == embeds[e]
           embedable == em.items[em.item]
           result == _build_embedding_result(embedable.id, embedable.text,
                                             ApiData("sv"), ApiData("mv")) IN
       EmbedLoop(e, [em EXCEPT !.results = Append(em.results, result)], em.item + 1)
    /\ UNCHANGED <<now, api_key, rate_limit, semValue, semWaiters, _last_request_time, dispatchLog>>
    /\ UNCHANGED notEmbVars

\* gather raises on the first failed call: embed raises EmbeddingError; the
\* other call of the item is not cancelled and runs on
GatherRaises(e) ==
    /\ embeds[e].pc = "running"
    /\ \E k \in CallKinds : apiCalls[<<e, k>>].pc = "err"
    /\ embeds' = [embeds EXCEPT ![e] = [@ EXCEPT !.pc = "failed", !.raised = "EmbeddingError",
                                                 !.results = <<>>]]
    /\ UNCHANGED <<now, api_key, rate_limit, semValue, semWaiters, _last_request_time, apiCalls, dispatchLog>>
    /\ UNCHANGED notEmbVars

\* some coroutine can run without the clock advancing
Runnable ==
    \/ \E c \in CallKeys : apiCalls[c].pc = "ready"
    \/ \E c \in CallKeys : apiCalls[c].pc = "sleeping" /\ now >= apiCalls[c].wake
    \/ \E c \in CallKeys : apiCalls[c].pc = "waitsem" /\ Head(semWaiters) = c /\ semValue > 0
    \/ \E e \in EmbedIds :
          /\ embeds[e].pc = "running"
          /\ \/ \A k \in CallKinds : apiCalls[<<e, k>>].pc = "ok"
             \/ \E k \in CallKinds : apiCalls[<<e, k>>].pc = "err"

Tick ==
    /\ now < MaxTime
    /\ ~Runnable
    /\ now' = now + 1
    /\ UNCHANGED <<api_key, rate_limit, semValue, semWaiters, _last_request_time, embeds, apiCalls, dispatchLog>>
    /\ UNCHANGED notEmbVars

(***************************************************************************)
(* retry_with_backoff(max_retries=3, base_delay=1.0) around embed           *)
(*                                                                         *)
(* The decorator runs the embed body up to its own max_retries times,      *)
(* sleeping base_delay * 2^k after the k-th failed attempt (k from 0) and  *)
(* raising the typed error of the last attempt when none is left.  The     *)
(* body turns every transport or HTTP failure into EmbeddingError.         *)
(***************************************************************************)
DECORATOR_MAX_RETRIES == 3      \* @retry_with_backoff(max_retries=3, ...)
BASE_DELAY == 1                 \* @retry_with_backoff(..., base_delay=1.0)
jina_max_retries == 3           \* settings.jina_max_retries

\* JinaEmbeddingClient.__init__: max_retries or settings.jina_max_retries
\* (0 stands for the default None)
MaxRetriesArgs == {0, 1, 2, 5}
MaxRetriesOf(max_retries_arg) ==
    IF max_retries_arg # 0 THEN max_retries_arg ELSE jina_max_retries

\* how one run of the embed body ends: it returns, or the API call raises
AttemptOutcomes == {"ok", "HTTPStatusError", "ConnectError"}

\* the except clauses of embed: what the body raises for a failed API call
embed_except(exc) == "EmbeddingError"

\* the sleep after the failed attempt number `attempt` (from 1)
backoff_delay(attempt) == BASE_DELAY * 2^(attempt - 1)

RetryIdle ==
    /\ max_retries = jina_max_retries
    /\ rtPc = "idle"
    /\ attemptLog = <<>>
    /\ delays = <<>>
    /\ rtRaised = None

RetryInit ==
    /\ \E max_retries_arg \in MaxRetriesArgs : max_retries = MaxRetriesOf(max_retries_arg)
    /\ rtPc = "idle"
    /\ attemptLog = <<>>
    /\ delays = <<>>
    /\ rtRaised = None

\* the decorated embed is called: the first attempt starts
RetryCall ==
    /\ rtPc = "idle"
    /\ rtPc' = "attempt"
    /\ UNCHANGED <<max_retries, attemptLog, delays, rtRaised>>
    /\ UNCHANGED notRetryVars

\* the body returns its results: so does the decorated call
AttemptReturns ==
    /\ rtPc = "attempt"
    /\ attemptLog' = Append(attemptLog, "ok")
    /\ rtPc' = "returned"
    /\ UNCHANGED <<max_retries, delays, rtRaised>>
    /\ UNCHANGED notRetryVars

\* the body raises: sleep and try again, or raise when no attempt is left
AttemptRaises ==
    /\ rtPc = "attempt"
    /\ \E exc \in AttemptOutcomes \ {"ok"} :
         /\ attemptLog' = Append(attemptLog, exc)
         /\ IF Len(attemptLog) + 1 >= DECORATOR_MAX_RETRIES
            THEN /\ rtPc' = "raised"
                 /\ rtRaised' = embed_except(exc)
                 /\ UNCHANGED delays
            ELSE /\ rtPc' = "backoff"
                 /\ delays' = Append(delays, backoff_delay(Len(attemptLog) + 1))
                 /\ UNCHANGED rtRaised
    /\ UNCHANGED max_retries
    /\ UNCHANGED notRetryVars

\* asyncio.sleep of the backoff returns: the next attempt starts
BackoffDone ==
    /\ rtPc = "backoff"
    /\ rtPc' = "attempt"
    /\ UNCHANGED <<max_retries, attemptLog, delays, rtRaised>>
    /\ UNCHANGED notRetryVars

(***************************************************************************)
(* Retrieval: similarity, MultiVectorStore, Reranker, ANNRetriever         *)
(*                                                                         *)
(* Scores are held in units of 1/10000.  Token vectors are unit vectors    *)
(* along named axes, so the cosine of two of them is 1 when they are the   *)
(* same axis and 0 otherwise.                                              *)
(***************************************************************************)
MaxQueries == 2     \* queries per retrieve_chunks call
MaxCands == 2       \* candidates the index returns per query
MaxDocs == 2        \* documents in the database
MaxBatch == 3       \* items per process_batch call

ScoreUnit == 10000
Axes == {"x", "y"}
ChunkIds == {"c1", "c2", "c3"}

Min(a, b) == IF a <= b THEN a ELSE b

\* the similarity_matrix entry of two token vectors
cosine(u, v) == IF u = v THEN ScoreUnit ELSE 0

RECURSIVE MaxOver(_, _)
\* np.max over one row of the matrix: the best cosine of u with a token of chunk
MaxOver(u, chunk) ==
    IF Len(chunk) = 1 THEN cosine(u, chunk[1])
    ELSE LET rest == MaxOver(u, Tail(chunk)) IN
         IF cosine(u, chunk[1]) >= rest THEN cosine(u, chunk[1]) ELSE rest

RECURSIVE maxsim_score(_, _)
\* similarity.maxsim_score: the sum over the query tokens of the row maxima
maxsim_score(query_multi_vectors, chunk_multi_vectors) ==
    IF query_multi_vectors = <<>> \/ chunk_multi_vectors = <<>> THEN 0
    ELSE MaxOver(query_multi_vectors[1], chunk_multi_vectors)
         + maxsim_score(Tail(query_multi_vectors), chunk_multi_vectors)

\* the token vectors the ingestion stored for a chunk
ChunkMultiVectors(cid) ==
    IF cid = "c1" THEN <<"x">> ELSE IF cid = "c2" THEN <<"x", "y">> ELSE <<"y">>

\* the contents MultiVectorStore._index can have: some chunks were never stored
MvStores == { [cid \in D |-> ChunkMultiVectors(cid)] : D \in {{}, {"c3"}, ChunkIds} }

\* MultiVectorStore.batch_get: only the ids the index holds
batch_get(index, chunk_ids) ==
    [cid \in (Range(chunk_ids) \cap DOMAIN index) |-> index[cid]]

\* mutant: list.sort without reverse=True
InsertByScore_asc(sorted, x) ==
    LET before == { i \in DOMAIN sorted : sorted[i].score <= x.score }
        n == Cardinality(before) IN
    SubSeq(sorted, 1, n) \o <<x>> \o SubSeq(sorted, n + 1, Len(sorted))

\* one step of the stable sort by descending score: x goes after every
\* element whose score is at least its own
InsertByScore(sorted, x) ==
    LET before == { i \in DOMAIN sorted : sorted[i].score >= x.score }
        n == Cardinality(before) IN
    SubSeq(sorted, 1, n) \o <<x>> \o SubSeq(sorted, n + 1, Len(sorted))

RECURSIVE SortByScore(_)
\* reranked.sort(key=lambda x: x["score"], reverse=True)
SortByScore(seq) ==
    IF seq = <<>> THEN <<>>
    ELSE InsertByScore(SortByScore(SubSeq(seq, 1, Len(seq) - 1)), seq[Len(seq)])

\* mutant: a candidate without multi-vectors is left out
rerank_candidate_drop(query_multi_vectors, candidate, chunk_multi_vectors_dict) ==
    IF candidate.chunk_id \in DOMAIN chunk_multi_vectors_dict
       /\ chunk_multi_vectors_dict[candidate.chunk_id] # <<>>
    THEN <<[chunk_id |-> candidate.chunk_id,
            score |-> maxsim_score(query_multi_vectors,
                                   chunk_multi_vectors_dict[candidate.chunk_id]),
            metadata |-> candidate.metadata]>>
    ELSE <<>>

\* the body of the loop of rerank: what one candidate adds to `reranked`
rerank_candidate(query_multi_vectors, candidate, chunk_multi_vectors_dict) ==
    IF candidate.chunk_id \in DOMAIN chunk_multi_vectors_dict
       /\ chunk_multi_vectors_dict[candidate.chunk_id] # <<>>
    THEN <<[chunk_id |-> candidate.chunk_id,
            score |-> maxsim_score(query_multi_vectors,
                                   chunk_multi_vectors_dict[candidate.chunk_id]),
            metadata |-> candidate.metadata]>>
    ELSE <<candidate>>

RECURSIVE RerankLoop(_, _, _)
RerankLoop(query_multi_vectors, candidates, chunk_multi_vectors_dict) ==
    IF candidates = <<>> THEN <<>>
    ELSE rerank_candidate(query_multi_vectors, candidates[1], chunk_multi_vectors_dict)
         \o RerankLoop(query_multi_vectors, Tail(candidates), chunk_multi_vectors_dict)

\* Reranker.rerank
rerank(query_multi_vectors, candidates, index) ==
    LET chunk_ids == [i \in DOMAIN candidates |-> candidates[i].chunk_id]
        chunk_multi_vectors_dict == batch_get(index, chunk_ids) IN
    SortByScore(RerankLoop(query_multi_vectors, candidates, chunk_multi_vectors_dict))

\* ---- ANNRetriever over SingleVectorStore.query ----
RetrievalQueries == {"q1", "q2"}

\* the query lists passed to retrieve_chunks: the prefixes of q1, q2, q1, ...
\* and of q2, q1, q2, ...
QueryAt(first, i) ==
    IF i % 2 = 1 THEN first ELSE CHOOSE q \in RetrievalQueries : q # first
QueryLists == { [i \in 1..k |-> QueryAt(first, i)] : first \in RetrievalQueries, k \in 0..MaxQueries }

\* what the embedding API gives for a query text
QueryVector(q) == "sv " \o q
QueryMultiVectors(q) == IF q = "q1" THEN <<"x">> ELSE <<"x", "y">>

\* EmbeddingService.generate_query_embeddings, when embed returns
generate_query_embeddings(queries) ==
    [i \in DOMAIN queries |->
        [id |-> "query_" \o ToString(i - 1),
         single_vector |-> [embedding |-> QueryVector(queries[i])],
         multi_vectors |-> [embeddings |-> QueryMultiVectors(queries[i])]]]

\* the metadata stored with a chunk's single vector (chunk_text is never stored)
ChunkMetadata(cid) ==
    [chunk_name |-> IF cid = "c3" THEN "" ELSE cid \o ".pdf", chunk_source |-> "pdf"]

\* RetrievalService._extract_pdf_text: "" when the page has no text or on any error
_extract_pdf_text(cid) == IF cid = "c1" THEN "alpha" ELSE ""

\* the similarity (1 - distance) of the k-th nearest neighbour: the index
\* answers in order of distance; neighbours can be equally far
ScorePatterns == {"falling", "tied"}
AnnScore(pattern, k) == IF pattern = "tied" THEN 8000 ELSE 10000 - 1000 * k

\* the ranked lists of distinct chunk ids the index can return for one query
CandidateIdLists(n) ==
    { ids \in SeqsUpTo(ChunkIds, n) : \A i, j \in DOMAIN ids : i # j => ids[i] # ids[j] }

\* SingleVectorStore.query for n query vectors: it raises StorageError, or
\* returns one list per query vector with at most top_k candidates each
AnnExt(n, top_k) ==
    { [raises |-> TRUE, value |-> <<>>] } \cup
    { [raises |-> FALSE,
       value |-> [i \in 1..n |->
                    [k \in DOMAIN ids[i] |->
                        [chunk_id |-> ids[i][k], score |-> AnnScore(pattern, k),
                         metadata |-> ChunkMetadata(ids[i][k])]]]] :
        ids \in [1..n -> CandidateIdLists(Min(top_k, MaxCands))], pattern \in ScorePatterns }

NoAnnOp == [op |-> "none", query_vectors |-> <<>>, raised |-> None, result |-> <<>>, calls |-> 0,
            index_raised |-> FALSE]

\* mutant: one index call per query vector
retrieve_perquery(query_vectors, top_k, ext) ==
    IF query_vectors = <<>>
    THEN [op |-> "retrieve", query_vectors |-> query_vectors, raised |-> "RetrievalError",
          result |-> <<>>, calls |-> 0, index_raised |-> FALSE]
    ELSE IF ext.raises
    THEN [op |-> "retrieve", query_vectors |-> query_vectors, raised |-> "RetrievalError",
          result |-> <<>>, calls |-> 1, index_raised |-> TRUE]
    ELSE [op |-> "retrieve", query_vectors |-> query_vectors, raised |-> None,
          result |-> ext.value, calls |-> Len(query_vectors), index_raised |-> FALSE]

\* ANNRetriever.retrieve: calls counts the vector_store.query calls made,
\* index_raised tells whether the call raised
retrieve(query_vectors, top_k, ext) ==
    IF query_vectors = <<>>
    THEN [op |-> "retrieve", query_vectors |-> query_vectors, raised |-> "RetrievalError",
          result |-> <<>>, calls |-> 0, index_raised |-> FALSE]
    ELSE IF ext.raises
    THEN [op |-> "retrieve", query_vectors |-> query_vectors, raised |-> "RetrievalError",
          result |-> <<>>, calls |-> 1, index_raised |-> TRUE]
    ELSE [op |-> "retrieve", query_vectors |-> query_vectors, raised |-> None,
          result |-> ext.value, calls |-> 1, index_raised |-> FALSE]

\* ---- RetrievalService.retrieve_chunks ----
default_top_k_ann == 10         \* settings.default_top_k_ann
default_top_k_rerank == 5       \* settings.default_top_k_rerank
TOP_K_ANN == 10                 \* retrieval_tool.TOP_K_ANN
TOP_K_RERANK == 5               \* retrieval_tool.TOP_K_RERANK

\* the top_k arguments a caller passes; 0 stands for None
TopKArgs == {0, 1}
TopKOf(arg, default) == IF arg # 0 THEN arg ELSE default

\* seq[:k]
Take(seq, k) == SubSeq(seq, 1, Min(k, Len(seq)))

\* the page_chunks entry built from one result
PageChunk(result, force_pdf_to_text) ==
    [chunk_id |-> result.chunk_id,
     chunk_name |-> result.metadata.chunk_name,
     score |-> result.score,
     chunk_text |-> IF force_pdf_to_text /\ result.metadata.chunk_source = "pdf"
                    THEN _extract_pdf_text(result.chunk_id) ELSE ""]

\* mutant: with reranking the ANN list itself is cut to top_k_rerank
final_results_annorder(r, query_multi_vectors, candidates, index) ==
    IF r.use_reranking
    THEN Take(candidates, r.top_k_rerank)
    ELSE Take(candidates, r.top_k_ann)

\* the results kept for one query: reranked[:top_k_rerank] or candidates[:top_k_ann]
final_results(r, query_multi_vectors, candidates, index) ==
    IF r.use_reranking
    THEN Take(rerank(query_multi_vectors, candidates, index), r.top_k_rerank)
    ELSE Take(candidates, r.top_k_ann)

\* mutant: a query without candidates adds nothing to results_by_query
QueryEntry_skip(r, query_idx, candidates, index) ==
    IF candidates = <<>> THEN <<>>
    ELSE LET embedding == generate_query_embeddings(r.queries)[query_idx]
             final == final_results(r, embedding.multi_vectors.embeddings, candidates, index) IN
         <<[type |-> "dict", query |-> r.queries[query_idx],
            chunks |-> [i \in DOMAIN final |-> PageChunk(final[i], r.force_pdf_to_text)]]>>

\* one iteration of the loop of retrieve_chunks: what it appends to
\* results_by_query: the empty list [] when there are no candidates (type
\* "list", chunks being the list's own, empty, contents), otherwise the
\* dict {"query": ..., "chunks": [...]}
QueryEntry(r, query_idx, candidates, index) ==
    IF candidates = <<>> THEN <<[type |-> "list", chunks |-> <<>>]>>
    ELSE LET embedding == generate_query_embeddings(r.queries)[query_idx]
             final == final_results(r, embedding.multi_vectors.embeddings, candidates, index) IN
         <<[type |-> "dict", query |-> r.queries[query_idx],
            chunks |-> [i \in DOMAIN final |-> PageChunk(final[i], r.force_pdf_to_text)]]>>

NoRq == [pc |-> "idle", queries |-> <<>>, top_k_ann |-> 0, top_k_rerank |-> 0,
         use_reranking |-> TRUE, force_pdf_to_text |-> TRUE, viaTool |-> FALSE,
         query_idx |-> 0, results_by_query |-> <<>>, reranks |-> 0, raised |-> None]
NoRerank == [query_multi_vectors |-> <<>>, candidates |-> <<>>, reranked |-> <<>>]
NoToolOut == [raised |-> None, message |-> "", result |-> None, invoked |-> <<>>,
              session_calls |-> 0]

RetrievalIdle ==
    /\ mvIndex = [cid \in ChunkIds |-> ChunkMultiVectors(cid)]
    /\ rq = NoRq
    /\ annOp = NoAnnOp
    /\ rerankLog = NoRerank
    /\ toolOut = NoToolOut

RetrievalInit ==
    /\ mvIndex \in MvStores
    /\ rq = NoRq
    /\ annOp = NoAnnOp
    /\ rerankLog = NoRerank
    /\ toolOut = NoToolOut

\* what RetrieveDocumentsTool.execute makes of the outcome of retrieve_chunks
ToolOutcome(r, raises, results_by_query) ==
    IF r.viaTool
    THEN RetrieveDocumentsTool_execute(RetrieveDocumentsTool(0), r.queries[1],
                                       [raises |-> raises, value |-> results_by_query])
    ELSE NoToolOut

\* the except clause of retrieve_chunks: every failure becomes RetrievalError
RetrieveChunksRaises(r) ==
    /\ rq' = [r EXCEPT !.pc = "raised", !.raised = "RetrievalError", !.results_by_query = <<>>]
    /\ toolOut' = ToolOutcome(r, TRUE, <<>>)

\* retrieve_chunks is called: an empty query list raises, otherwise the
\* queries go to the embedding service
RetrieveChunks ==
    /\ rq.pc = "idle"
    /\ annOp = NoAnnOp
    /\ \E queries \in QueryLists, ann \in TopKArgs, rr \in TopKArgs, use \in BOOLEAN :
         LET r == [NoRq EXCEPT !.queries = queries,
                               !.top_k_ann = TopKOf(ann, default_top_k_ann),
                               !.top_k_rerank = TopKOf(rr, default_top_k_rerank),
                               !.use_reranking = use] IN
         IF queries = <<>> THEN RetrieveChunksRaises(r)
         ELSE rq' = [r EXCEPT !.pc = "embedding"] /\ UNCHANGED toolOut
    /\ UNCHANGED <<mvIndex, annOp, rerankLog>>
    /\ UNCHANGED notRetrVars

\* RetrieveDocumentsTool.execute(query): retrieve_chunks([query]) with the
\* tool's constants
RetrieveDocuments ==
    /\ rq.pc = "idle"
    /\ annOp = NoAnnOp
    /\ \E query \in RetrievalQueries :
         rq' = [NoRq EXCEPT !.pc = "embedding", !.queries = <<query>>, !.viaTool = TRUE,
                            !.top_k_ann = TOP_K_ANN, !.top_k_rerank = TOP_K_RERANK]
    /\ UNCHANGED <<mvIndex, annOp, rerankLog, toolOut>>
    /\ UNCHANGED notRetrVars

\* generate_query_embeddings returns one result per query
QueryEmbeddingsReturn ==
    /\ rq.pc = "embedding"
    /\ rq' = [rq EXCEPT !.pc = "ann"]
    /\ UNCHANGED <<mvIndex, annOp, rerankLog, toolOut>>
    /\ UNCHANGED notRetrVars

\* generate_query_embeddings raises EmbeddingError
QueryEmbeddingsRaise ==
    /\ rq.pc = "embedding"
    /\ RetrieveChunksRaises(rq)
    /\ UNCHANGED <<mvIndex, annOp, rerankLog>>
    /\ UNCHANGED notRetrVars

\* the batched ANN search: one ANNRetriever.retrieve call for all queries;
\* its failure fails retrieve_chunks, otherwise the loop starts
AnnSearch ==
    /\ rq.pc = "ann"
    /\ LET embeddings == generate_query_embeddings(rq.queries)
           query_vectors == [i \in DOMAIN embeddings |-> embeddings[i].single_vector.embedding] IN
       \E ext \in AnnExt(Len(query_vectors), rq.top_k_ann) :
         LET r == retrieve(query_vectors, rq.top_k_ann, ext) IN
         /\ annOp' = r
         /\ IF r.raised # None THEN RetrieveChunksRaises(rq)
            ELSE rq' = [rq EXCEPT !.pc = "loop", !.query_idx = 1] /\ UNCHANGED toolOut
    /\ UNCHANGED <<mvIndex, rerankLog>>
    /\ UNCHANGED notRetrVars

\* one iteration of the loop over the queries; after the last one
\* retrieve_chunks returns results_by_query
RetrieveLoop ==
    /\ rq.pc = "loop"
    /\ LET i == rq.query_idx
           all_candidates == annOp.result
           candidates == IF i <= Len(all_candidates) THEN all_candidates[i] ELSE <<>>
           reranks == candidates # <<>> /\ rq.use_reranking
           query_multi_vectors == generate_query_embeddings(rq.queries)[i].multi_vectors.embeddings
           results == rq.results_by_query \o QueryEntry(rq, i, candidates, mvIndex)
           r == [rq EXCEPT !.results_by_query = results,
                           !.reranks = IF reranks THEN @ + 1 ELSE @] IN
       /\ rerankLog' = IF reranks
                       THEN [query_multi_vectors |-> query_multi_vectors,
                             candidates |-> candidates,
                             reranked |-> rerank(query_multi_vectors, candidates, mvIndex)]
                       ELSE rerankLog
       /\ IF i = Len(rq.queries)
          THEN /\ rq' = [r EXCEPT !.pc = "returned"]
               /\ toolOut' = ToolOutcome(r, FALSE, results)
          ELSE /\ rq' = [r EXCEPT !.query_idx = i + 1]
               /\ UNCHANGED toolOut
    /\ UNCHANGED <<mvIndex, annOp>>
    /\ UNCHANGED notRetrVars

\* ANNRetriever.retrieve called on its own, with any list of query vectors
AnnRetrieve ==
    /\ rq.pc = "idle"
    /\ annOp = NoAnnOp
    /\ \E queries \in QueryLists, top_k \in 1..MaxCands :
         LET query_vectors == [i \in DOMAIN queries |-> QueryVector(queries[i])] IN
         \E ext \in AnnExt(Len(query_vectors), top_k) :
            annOp' = retrieve(query_vectors, top_k, ext)
    /\ UNCHANGED <<mvIndex, rq, rerankLog, toolOut>>
    /\ UNCHANGED notRetrVars

(***************************************************************************)
(* AgentOrchestrator                                                       *)
(***************************************************************************)
UserMessage(text) == [role |-> "user", content |-> text]
AssistantText(text) == [role |-> "assistant", content |-> text]

\* mutant: the list is formatted on every call
_get_formatted_tools_nocache(cache, ts) ==
    [cache |-> <<format_tools(get_all_tools(ts))>>, format_calls |-> 1]

\* AgentOrchestrator._get_formatted_tools; the cache is <<>> for None and
\* <<list>> once set
_get_formatted_tools(cache, ts) ==
    IF cache = <<>>
    THEN [cache |-> <<format_tools(get_all_tools(ts))>>, format_calls |-> 1]
    ELSE [cache |-> cache, format_calls |-> 0]

\* AgentOrchestrator._execute_single_tool: every exception of the registry
\* becomes a ToolExecutionError
_execute_single_tool(ts, tool_name, tool_args, sess, ext) ==
    LET r == execute_tool(ts, tool_name, tool_args, sess, ext) IN
    IF r.raised # None
    THEN [Raise("ToolExecutionError", "Failed to execute tool " \o tool_name)
            EXCEPT !.invoked = r.invoked, !.session_calls = r.session_calls]
    ELSE r

\* mutant: the exception is re-raised as it is
process_query_except_reraise(raised) == raised

\* the except clause of process_query: whatever was raised, the caller gets
\* an AgenticException
process_query_except(raised) == "AgenticException"

\* mutant: the prior history is dropped
InitialMessages_nohistory(H, q) == <<UserMessage(q)>>

\* messages.copy() if messages else [], then the user message appended
InitialMessages(H, q) == Append(IF H # <<>> THEN H ELSE <<>>, UserMessage(q))

\* mutant: `messages or []`: a non-empty history is used as it is
MessagesRef_alias(H) == IF H # <<>> THEN "caller" ELSE "new"

\* the object `messages.copy() if messages else []` evaluates to: a copy of
\* the caller's list, or a new list; never the caller's list ("caller")
MessagesRef(H) == IF H # <<>> THEN "copy" ELSE "new"

\* mutant: every iteration takes the first call
ToolCallAt_first(calls, i) == calls[1]

\* `for tool_call in formatted_tool_calls`: the call of the i-th iteration
ToolCallAt(calls, i) == calls[i]

\* mutant: the result messages appended in reverse order
ToolResultMessages_reversed(results) ==
    [i \in 1..Len(results) |->
        format_tool_result_message(results[Len(results) + 1 - i].tool_call.id,
                                   results[Len(results) + 1 - i].tool_call.name,
                                   results[Len(results) + 1 - i].result_text)]

\* the tool messages process_query appends for the results of one turn
ToolResultMessages(results) ==
    [i \in 1..Len(results) |->
        format_tool_result_message(results[i].tool_call.id,
                                   results[i].tool_call.name,
                                   results[i].result_text)]

\* the prior conversations a caller passes in (None is the empty list)
Histories ==
    { <<>>,
      <<UserMessage("hi"),
        format_tool_message(<<[id |-> "call_1", name |-> "list_docs", arguments |-> "{}"]>>),
        format_tool_result_message("call_1", "list_docs", "a.pdf"),
        AssistantText("done")>> }
Queries == {"q1"}

\* the outcomes a tool's collaborator has inside the agent loop
AgentExtOf(tool) ==
    IF tool.kind = "mcp"
    THEN { e \in McpExt : e.raises \/ e.value.content = <<"a.pdf">> }
    ELSE { e \in RagExt : e.raises \/ e.value = <<>> }
AgentExtFor(ts, tool_name) ==
    IF Find(ts, tool_name) = {} THEN { e \in McpExt : e.raises }
    ELSE AgentExtOf(ts[CHOOSE i \in Find(ts, tool_name) : TRUE])

\* what the caller of process_query gets; cause is the exception raised inside
NoOutcome == [kind |-> "none", type |-> None, cause |-> None, value |-> <<>>]
Raised(type, cause) == [kind |-> "raise", type |-> type, cause |-> cause, value |-> <<>>]
Returned(value) == [kind |-> "return", type |-> None, cause |-> None, value |-> value]

NoToolsLog == [runs |-> 0, format_calls |-> 0, passed |-> {}]

\* chat_completion(messages=messages, tools=tools) is called
ChatCompletionCalled(log, tools) == [log EXCEPT !.passed = @ \cup {tools}]

AgentIdle ==
    /\ pc = "idle"
    /\ callerMessages = <<>>
    /\ messages = <<>>
    /\ extracted_tool_calls = <<>>
    /\ tool_results = <<>>
    /\ toolIdx = 0
    /\ _formatted_tools = <<>>
    /\ outcome = NoOutcome
    /\ llmCalls = 0
    /\ execLog = <<>>
    /\ inFlight = 0
    /\ turns = 0
    /\ userQuery = ""
    /\ lastResp = [choices |-> <<>>]
    /\ toolsLog = NoToolsLog
    /\ messagesRef = "none"

\* the registry as core/startup.py builds it: the MCP client connects, its
\* tools are registered, then the retrieval tool is
StartupDiscovered == <<[name |-> "list_docs", description |-> "d1", parameters |-> "{}"]>>
StartupExternal == register_external_tools(<<>>, StartupDiscovered, <<>>, 1)
StartupInternal == register_internal_tools(StartupExternal.tools, "RetrievalService", 2)

RegistryStarted ==
    /\ _tools = StartupInternal.tools
    /\ session = "session"
    /\ mcpTools = StartupDiscovered
    /\ nextObj = 3
    /\ regLog = StartupExternal.registered \o StartupInternal.registered
    /\ lastOp = NoOp

NoMessage == [role |-> "none"]

FmtIdle ==
    /\ fmtIn = <<>>
    /\ fmtOut = NoMessage

\* process_query up to its first await: copy the history, append the user
\* message, fetch the formatted tools, call chat_completion; the
\* orchestrator serves one call after the other, each with fresh locals
ProcessQuery ==
    /\ pc \in {"idle", "returned", "raised"}
    /\ toolsLog.runs < MaxRuns
    /\ \E q \in Queries, H \in Histories :
         /\ userQuery' = q
         /\ callerMessages' = H
         /\ messages' = InitialMessages(H, q)
         /\ messagesRef' = MessagesRef(H)
    /\ LET got == _get_formatted_tools(_formatted_tools, _tools) IN
         /\ _formatted_tools' = got.cache
         /\ toolsLog' = ChatCompletionCalled(
                            [toolsLog EXCEPT !.runs = @ + 1,
                                             !.format_calls = @ + got.format_calls],
                            got.cache[1])
    /\ pc' = "llm"
    /\ llmCalls' = 1
    /\ extracted_tool_calls' = <<>>
    /\ tool_results' = <<>>
    /\ toolIdx' = 0
    /\ outcome' = NoOutcome
    /\ execLog' = <<>>
    /\ turns' = 0
    /\ lastResp' = [choices |-> <<>>]
    /\ UNCHANGED inFlight
    /\ UNCHANGED notAgentVars

\* chat_completion raises (LLMError)
ChatCompletionRaises ==
    /\ pc = "llm"
    /\ pc' = "raised"
    /\ outcome' = Raised(process_query_except("LLMError"), "LLMError")
    /\ UNCHANGED <<callerMessages, messages, extracted_tool_calls, tool_results, toolIdx,
                   _formatted_tools, llmCalls, execLog, inFlight, turns, userQuery, lastResp, toolsLog, messagesRef>>
    /\ UNCHANGED notAgentVars

\* chat_completion returns a response without tool calls: final answer
ChatCompletionFinal ==
    /\ pc = "llm"
    /\ \E response \in Responses :
         /\ ~has_tool_calls(response)
         /\ lastResp' = response
         /\ messages' = Append(messages, [role |-> "assistant",
                                          content |-> extract_text_content(response)])
         /\ outcome' = Returned(messages')
    /\ pc' = "returned"
    /\ UNCHANGED <<callerMessages, extracted_tool_calls, tool_results, toolIdx,
                   _formatted_tools, llmCalls, execLog, inFlight, turns, userQuery, toolsLog, messagesRef>>
    /\ UNCHANGED notAgentVars

\* mutant: the loop gives up after one tool-call turn
ChatCompletionToolCalls_capped ==
    /\ pc = "llm"
    /\ turns < 1
    /\ \E response \in Responses :
         /\ has_tool_calls(response)
         /\ extracted_tool_calls' = extract_tool_calls(response)
         /\ messages' = Append(messages, format_tool_message(extracted_tool_calls'))
    /\ tool_results' = <<>>
    /\ toolIdx' = 1
    /\ turns' = turns + 1
    /\ pc' = "tools"
    /\ UNCHANGED <<callerMessages, _formatted_tools, outcome, llmCalls, execLog,
                   inFlight, userQuery, lastResp, toolsLog, messagesRef>>
    /\ UNCHANGED notAgentVars

\* chat_completion returns tool calls: append the assistant tool-call
\* message and enter _execute_tools
ChatCompletionToolCalls ==
    /\ pc = "llm"
    /\ turns < MaxTurns
    /\ \E response \in Responses :
         /\ has_tool_calls(response)
         /\ extracted_tool_calls' = extract_tool_calls(response)
         /\ messages' = Append(messages, format_tool_message(extracted_tool_calls'))
    /\ tool_results' = <<>>
    /\ toolIdx' = 1
    /\ turns' = turns + 1
    /\ pc' = "tools"
    /\ UNCHANGED <<callerMessages, _formatted_tools, outcome, llmCalls, execLog,
                   inFlight, userQuery, lastResp, toolsLog, messagesRef>>
    /\ UNCHANGED notAgentVars

\* _execute_tools, one iteration up to its await: parse the arguments and
\* hand the call to _execute_single_tool
ExecuteToolsNext ==
    /\ pc = "tools"
    /\ toolIdx <= Len(extracted_tool_calls)
    /\ LET tool_call == ToolCallAt(extracted_tool_calls, toolIdx)
           tool_args == json_loads(tool_call.arguments) IN
       IF tool_args.raised # None
       THEN /\ pc' = "raised"
            /\ outcome' = Raised(process_query_except(tool_args.raised), tool_args.raised)
            /\ UNCHANGED <<execLog, inFlight>>
       ELSE /\ pc' = "tool"
            /\ execLog' = Append(execLog, [turn |-> turns, call |-> tool_call])
            /\ inFlight' = inFlight + 1
            /\ UNCHANGED outcome
    /\ UNCHANGED <<callerMessages, messages, extracted_tool_calls, tool_results, toolIdx,
                   _formatted_tools, llmCalls, turns, userQuery, lastResp, toolsLog, messagesRef>>
    /\ UNCHANGED notAgentVars

\* the tool execution returns: record the result and go to the next call
ToolReturns ==
    /\ pc = "tool"
    /\ LET tool_call == ToolCallAt(extracted_tool_calls, toolIdx)
           tool_args == json_loads(tool_call.arguments).value IN
       \E ext \in AgentExtFor(_tools, tool_call.name) :
          LET r == _execute_single_tool(_tools, tool_call.name, tool_args, session, ext) IN
          /\ r.raised = None
          /\ tool_results' = Append(tool_results,
                                    [tool_call |-> tool_call,
                                     result_text |-> r.result,
                                     text_chunks |-> <<r.result>>])
    /\ toolIdx' = toolIdx + 1
    /\ inFlight' = inFlight - 1
    /\ pc' = "tools"
    /\ UNCHANGED <<callerMessages, messages, extracted_tool_calls, _formatted_tools,
                   outcome, llmCalls, execLog, turns, userQuery, lastResp, toolsLog, messagesRef>>
    /\ UNCHANGED notAgentVars

\* mutant: the failed call is handed to the registry once more before the
\* failure is raised
ToolRaises_retry ==
    /\ pc = "tool"
    /\ LET tool_call == ToolCallAt(extracted_tool_calls, toolIdx)
           tool_args == json_loads(tool_call.arguments).value IN
       \E ext \in AgentExtFor(_tools, tool_call.name) :
          LET r == _execute_single_tool(_tools, tool_call.name, tool_args, session, ext) IN
          /\ r.raised # None
          /\ outcome' = Raised(process_query_except(r.raised), r.raised)
          /\ execLog' = Append(execLog, [turn |-> turns, call |-> tool_call])
    /\ inFlight' = inFlight - 1
    /\ pc' = "raised"
    /\ UNCHANGED <<callerMessages, messages, extracted_tool_calls, tool_results, toolIdx,
                   _formatted_tools, llmCalls, turns, userQuery, lastResp, toolsLog, messagesRef>>
    /\ UNCHANGED notAgentVars

\* the tool execution raises: process_query raises
ToolRaises ==
    /\ pc = "tool"
    /\ LET tool_call == ToolCallAt(extracted_tool_calls, toolIdx)
           tool_args == json_loads(tool_call.arguments).value IN
       \E ext \in AgentExtFor(_tools, tool_call.name) :
          LET r == _execute_single_tool(_tools, tool_call.name, tool_args, session, ext) IN
          /\ r.raised # None
          /\ outcome' = Raised(process_query_except(r.raised), r.raised)
    /\ inFlight' = inFlight - 1
    /\ pc' = "raised"
    /\ UNCHANGED <<callerMessages, messages, extracted_tool_calls, tool_results, toolIdx,
                   _formatted_tools, llmCalls, execLog, turns, userQuery, lastResp, toolsLog, messagesRef>>
    /\ UNCHANGED notAgentVars

\* _execute_tools returns: append one tool message per result and call
\* chat_completion again
ExecuteToolsDone ==
    /\ pc = "tools"
    /\ toolIdx > Len(extracted_tool_calls)
    /\ messages' = messages \o ToolResultMessages(tool_results)
    /\ pc' = "llm"
    /\ llmCalls' = llmCalls + 1
    /\ toolsLog' = ChatCompletionCalled(toolsLog, _formatted_tools[1])
    /\ UNCHANGED <<callerMessages, extracted_tool_calls, tool_results, toolIdx,
                   _formatted_tools, outcome, execLog, inFlight, turns, userQuery, lastResp,
                   messagesRef>>
    /\ UNCHANGED notAgentVars

(***************************************************************************)
(* IngestionService: ingest_unprocessed_documents, concurrent calls        *)
(***************************************************************************)
DocIds == 1..MaxDocs
Callers == {1, 2}       \* two requests to /ingest_all
DocumentStatus == {"uploaded", "processing", "processed", "error"}
UNPROCESSED == {"uploaded", "error"}    \* the filter of ingest_unprocessed_documents

\* DocumentSQLStore.list_documents(filter): the documents whose status is in
\* the filter, in table order
RECURSIVE list_documents(_, _, _)
list_documents(status, filter, d) ==
    IF d > MaxDocs THEN <<>>
    ELSE (IF status[d] \in filter THEN <<d>> ELSE <<>>) \o list_documents(status, filter, d + 1)

\* DocumentSQLStore.update_document_status when the database accepts it
update_document_status(status, doc_id, value) == [status EXCEPT ![doc_id] = value]

NoResult == [num_documents_just_processed |-> 0, num_documents_failed |-> 0,
             failed_documents |-> <<>>]
NoIngest == [pc |-> "idle", unprocessed_documents |-> <<>>, idx |-> 0, attempted |-> <<>>,
             result |-> NoResult, raised |-> None]

IngestIdle ==
    /\ docStatus = [d \in DocIds |-> "processed"]
    /\ ing = [c \in Callers |-> NoIngest]
    /\ running = 0
    /\ completedBy = [d \in DocIds |-> {}]

\* documents were uploaded, some were ingested before, some failed before
IngestInit ==
    /\ docStatus \in [DocIds -> {"uploaded", "processed", "error"}]
    /\ ing = [c \in Callers |-> NoIngest]
    /\ running = 0
    /\ completedBy = [d \in DocIds |-> {}]

\* the coroutine of call c can run: no other coroutine is between two awaits
CanRun(c) == running \in {0, c}

\* the loop goes to the next document, or the call returns its result
NextDocument(call) ==
    IF call.idx = Len(call.unprocessed_documents)
    THEN [call EXCEPT !.pc = "returned"]
    ELSE [call EXCEPT !.pc = "loop", !.idx = @ + 1]

\* the except clause inside the loop: set the status to error, count the
\* failure and go on; when that status update raises too, the outer except
\* clause ends the call with IngestionError
IngestFailed(c, call, status, update_ok) ==
    IF update_ok
    THEN LET doc_id == call.unprocessed_documents[call.idx]
             next == NextDocument(
                        [call EXCEPT !.result.num_documents_failed = @ + 1,
                                     !.result.failed_documents = Append(@, doc_id)]) IN
         /\ docStatus' = update_document_status(status, doc_id, "error")
         /\ ing' = [ing EXCEPT ![c] = next]
         /\ running' = IF next.pc = "returned" THEN 0 ELSE c
    ELSE /\ docStatus' = status
         /\ ing' = [ing EXCEPT ![c] = [call EXCEPT !.pc = "raised", !.raised = "IngestionError"]]
         /\ running' = 0

\* ingest_unprocessed_documents up to the loop: list the documents; a failing
\* list raises IngestionError, an empty one returns the zero result
IngestUnprocessedDocuments(c) ==
    /\ ing[c].pc = "idle"
    /\ CanRun(c)
    /\ \E list_ok \in BOOLEAN :
         IF ~list_ok
         THEN /\ ing' = [ing EXCEPT ![c] = [@ EXCEPT !.pc = "raised", !.raised = "IngestionError"]]
              /\ running' = 0
         ELSE LET listed == list_documents(docStatus, UNPROCESSED, 1) IN
              IF listed = <<>>
              THEN /\ ing' = [ing EXCEPT ![c] = [@ EXCEPT !.pc = "returned"]]
                   /\ running' = 0
              ELSE /\ ing' = [ing EXCEPT ![c] = [@ EXCEPT !.pc = "loop", !.idx = 1,
                                                           !.unprocessed_documents = listed]]
                   /\ running' = c
    /\ UNCHANGED <<docStatus, completedBy>>
    /\ UNCHANGED notIngVars

\* ingest_document up to its embedding await: the metadata lookup fails, or
\* the status becomes processing and the split fails, or the chunks are
\* stored and the embedding request goes out
IngestDocument(c) ==
    /\ ing[c].pc = "loop"
    /\ CanRun(c)
    /\ LET doc_id == ing[c].unprocessed_documents[ing[c].idx]
           call == [ing[c] EXCEPT !.attempted = Append(@, doc_id)] IN
       \E how \in {"ok", "no_metadata", "split_fails"}, update_ok \in BOOLEAN :
          IF how = "no_metadata" THEN IngestFailed(c, call, docStatus, update_ok)
          ELSE IF how = "split_fails"
          THEN IngestFailed(c, call, update_document_status(docStatus, doc_id, "processing"),
                            update_ok)
          ELSE /\ docStatus' = update_document_status(docStatus, doc_id, "processing")
               /\ ing' = [ing EXCEPT ![c] = [call EXCEPT !.pc = "embedding"]]
               /\ running' = 0
    /\ UNCHANGED completedBy
    /\ UNCHANGED notIngVars

\* the embeddings were generated and stored: the status becomes processed,
\* the document is counted, the loop goes on
EmbeddingsStored(c) ==
    /\ ing[c].pc = "embedding"
    /\ CanRun(c)
    /\ LET doc_id == ing[c].unprocessed_documents[ing[c].idx]
           next == NextDocument([ing[c] EXCEPT !.result.num_documents_just_processed = @ + 1]) IN
       /\ docStatus' = update_document_status(docStatus, doc_id, "processed")
       /\ completedBy' = [completedBy EXCEPT ![doc_id] = @ \cup {c}]
       /\ ing' = [ing EXCEPT ![c] = next]
       /\ running' = IF next.pc = "returned" THEN 0 ELSE c
    /\ UNCHANGED notIngVars

\* generating the embeddings raises
EmbeddingsFail(c) ==
    /\ ing[c].pc = "embedding"
    /\ CanRun(c)
    /\ \E update_ok \in BOOLEAN : IngestFailed(c, ing[c], docStatus, update_ok)
    /\ UNCHANGED completedBy
    /\ UNCHANGED notIngVars

(***************************************************************************)
(* BatchProcessor.process_batch                                            *)
(***************************************************************************)
BatchItemStream == <<"a", "b", "c", "d">>
BatchItems == { SubSeq(BatchItemStream, 1, k) : k \in 0..MaxBatch }
MaxConcurrents == {1, 2}

\* the result process_fn gives for an item
process_fn(item) == "result of " \o item

NoBatch == [pc |-> "idle", items |-> <<>>, show_progress |-> TRUE, max_concurrent |-> 1,
            tasks |-> <<>>, completed |-> <<>>, results |-> <<>>, peak |-> 0]

BatchIdle == bp = NoBatch

InSemaphore(b) == { i \in DOMAIN b.tasks : b.tasks[i] = "running" }

\* what process_batch returns once every task is done: with show_progress
\* the results as tqdm.as_completed yielded them, otherwise gather's list
process_batch_results(items, show_progress, completed) ==
    IF show_progress
    THEN [k \in DOMAIN completed |-> process_fn(items[completed[k]])]
    ELSE [i \in DOMAIN items |-> process_fn(items[i])]

\* process_batch(items, process_fn, show_progress): one task per item
ProcessBatch ==
    /\ bp.pc = "idle"
    /\ \E items \in BatchItems, show_progress \in BOOLEAN, max_concurrent \in MaxConcurrents :
         bp' = [NoBatch EXCEPT !.pc = "running", !.items = items,
                               !.show_progress = show_progress,
                               !.max_concurrent = max_concurrent,
                               !.tasks = [i \in DOMAIN items |-> "pending"]]
    /\ UNCHANGED notBatchVars

\* a task enters `async with semaphore` and calls process_fn
TaskStarts(i) ==
    /\ bp.pc = "running"
    /\ i \in DOMAIN bp.tasks
    /\ bp.tasks[i] = "pending"
    /\ Cardinality(InSemaphore(bp)) < bp.max_concurrent
    /\ bp' = [bp EXCEPT !.tasks[i] = "running",
                         !.peak = IF Cardinality(InSemaphore(bp)) + 1 > @
                                  THEN Cardinality(InSemaphore(bp)) + 1 ELSE @]
    /\ UNCHANGED notBatchVars

\* process_fn returns for a task, whichever one: the semaphore is released
TaskCompletes(i) ==
    /\ bp.pc = "running"
    /\ i \in DOMAIN bp.tasks
    /\ bp.tasks[i] = "running"
    /\ bp' = [bp EXCEPT !.tasks[i] = "done", !.completed = Append(@, i)]
    /\ UNCHANGED notBatchVars

\* every task is done: process_batch returns
BatchReturns ==
    /\ bp.pc = "running"
    /\ \A i \in DOMAIN bp.tasks : bp.tasks[i] = "done"
    /\ bp' = [bp EXCEPT !.pc = "returned",
                         !.results = process_batch_results(bp.items, bp.show_progress,
                                                           bp.completed)]
    /\ UNCHANGED notBatchVars

\* the components no specification but their own runs
RagIdle == RetryIdle /\ RetrievalIdle /\ IngestIdle /\ BatchIdle

Init == AgentIdle /\ RegistryStarted /\ FmtIdle /\ EmbedIdle /\ RagIdle

Next ==
    \/ ProcessQuery
    \/ ChatCompletionRaises
    \/ ChatCompletionFinal
    \/ ChatCompletionToolCalls
    \/ ExecuteToolsNext
    \/ ToolReturns
    \/ ToolRaises
    \/ ExecuteToolsDone

Spec == Init /\ [][Next]_vars

TypeOK ==
    /\ pc \in {"idle", "llm", "tools", "tool", "returned", "raised"}
    /\ inFlight \in 0..1
    /\ turns \in 0..(MaxTurns + 1)

(***************************************************************************)
(* The registry specification: connect, register, execute in any order     *)
(***************************************************************************)
InitRegistry == RegistryInit /\ AgentIdle /\ FmtIdle /\ EmbedIdle /\ RagIdle

NextRegistry ==
    \/ ConnectToServer
    \/ RegisterInternalTools
    \/ RegisterExternalTools
    \/ ExecuteTool
    \/ Cleanup

SpecRegistry == InitRegistry /\ [][NextRegistry]_vars

(***************************************************************************)
(* format_tool_message applied to any list of extracted tool calls         *)
(***************************************************************************)
\* any list of tool-call dicts in the shape extract_tool_calls returns, ids
\* repeated or out of order included
FormatInputs ==
    SeqsUpTo({ [id |-> i, name |-> c.name, arguments |-> c.arguments] :
                 i \in {"call_1", "call_2"}, c \in CallChoices }, MaxCalls)

InitFormat ==
    /\ fmtIn \in FormatInputs
    /\ fmtOut = NoMessage
    /\ AgentIdle
    /\ RegistryStarted
    /\ EmbedIdle
    /\ RagIdle

FormatToolMessage ==
    /\ fmtOut = NoMessage
    /\ fmtOut' = format_tool_message(fmtIn)
    /\ UNCHANGED fmtIn
    /\ UNCHANGED notFmtVars

NextFormat == FormatToolMessage

SpecFormat == InitFormat /\ [][NextFormat]_vars

(***************************************************************************)
(* The embedding client specification: concurrent embed invocations        *)
(***************************************************************************)
InitEmbed == EmbedInit /\ AgentIdle /\ RegistryStarted /\ FmtIdle /\ RagIdle

NextEmbed ==
    \/ \E e \in EmbedIds : Embed(e)
    \/ \E c \in CallKeys : CallAcquire(c)
    \/ \E c \in CallKeys : SemGranted(c)
    \/ \E c \in CallKeys : SleepDone(c)
    \/ \E c \in CallKeys : Response(c)
    \/ \E e \in EmbedIds : GatherReturns(e)
    \/ \E e \in EmbedIds : GatherRaises(e)
    \/ Tick

SpecEmbed == InitEmbed /\ [][NextEmbed]_vars

(***************************************************************************)
(* The retry specification: one decorated embed call                       *)
(***************************************************************************)
InitRetry ==
    /\ RetryInit
    /\ AgentIdle /\ RegistryStarted /\ FmtIdle /\ EmbedIdle /\ RetrievalIdle /\ IngestIdle /\ BatchIdle

NextRetry ==
    \/ RetryCall
    \/ AttemptReturns
    \/ AttemptRaises
    \/ BackoffDone

SpecRetry == InitRetry /\ [][NextRetry]_vars

(***************************************************************************)
(* The retrieval specification: one retrieve_chunks call (direct or from   *)
(* the retrieval tool), or one ANNRetriever.retrieve call                  *)
(***************************************************************************)
InitRetrieval ==
    /\ RetrievalInit
    /\ AgentIdle /\ RegistryStarted /\ FmtIdle /\ EmbedIdle /\ RetryIdle /\ IngestIdle /\ BatchIdle

NextRetrieval ==
    \/ RetrieveChunks
    \/ RetrieveDocuments
    \/ QueryEmbeddingsReturn
    \/ QueryEmbeddingsRaise
    \/ AnnSearch
    \/ RetrieveLoop
    \/ AnnRetrieve

SpecRetrieval == InitRetrieval /\ [][NextRetrieval]_vars

(***************************************************************************)
(* The ingestion specification: two concurrent ingest_unprocessed_documents*)
(* calls on one database                                                   *)
(***************************************************************************)
InitIngest ==
    /\ IngestInit
    /\ AgentIdle /\ RegistryStarted /\ FmtIdle /\ EmbedIdle /\ RetryIdle /\ RetrievalIdle /\ BatchIdle

NextIngest ==
    \/ \E c \in Callers : IngestUnprocessedDocuments(c)
    \/ \E c \in Callers : IngestDocument(c)
    \/ \E c \in Callers : EmbeddingsStored(c)
    \/ \E c \in Callers : EmbeddingsFail(c)

SpecIngest == InitIngest /\ [][NextIngest]_vars

(***************************************************************************)
(* The batch specification: one process_batch call                         *)
(***************************************************************************)
InitBatch ==
    /\ BatchIdle
    /\ AgentIdle /\ RegistryStarted /\ FmtIdle /\ EmbedIdle /\ RetryIdle /\ RetrievalIdle /\ IngestIdle

NextBatch ==
    \/ ProcessBatch
    \/ \E i \in 1..MaxBatch : TaskStarts(i)
    \/ \E i \in 1..MaxBatch : TaskCompletes(i)
    \/ BatchReturns

SpecBatch == InitBatch /\ [][NextBatch]_vars

(***************************************************************************)
(* Properties of process_query (specification Spec)                        *)
(***************************************************************************)
IsToolCallMsg(m) == m.role = "assistant" /\ "tool_calls" \in DOMAIN m

\* positions of the messages process_query appended to the caller's history
AppendedIn(ms) == (Len(callerMessages) + 1)..Len(ms)

\* C1: in a returned message list, each appended assistant tool-call message
\* with n calls is followed at once by exactly n tool messages, the k-th with
\* the id and name of the k-th call, and no tool message stands elsewhere in
\* the appended part.
ToolMessagesFollowCallsC1 ==
    outcome.kind = "return" =>
        LET ms == outcome.value IN
        /\ \A p \in AppendedIn(ms) :
              IsToolCallMsg(ms[p]) =>
                 LET n == Len(ms[p].tool_calls) IN
                 /\ p + n <= Len(ms)
                 /\ \A k \in 1..n :
                       /\ ms[p + k].role = "tool"
                       /\ ms[p + k].tool_call_id = ms[p].tool_calls[k].id
                       /\ ms[p + k].name = ms[p].tool_calls[k].function.name
                 /\ (p + n + 1 <= Len(ms) => ms[p + n + 1].role # "tool")
        /\ \A p \in AppendedIn(ms) :
              ms[p].role = "tool" =>
                 \E q \in AppendedIn(ms) :
                    /\ q < p
                    /\ IsToolCallMsg(ms[q])
                    /\ p <= q + Len(ms[q].tool_calls)

\* a conversation was returned that holds a turn of two calls with distinct ids
TwoCallTurnReturnedC1 ==
    /\ outcome.kind = "return"
    /\ \E p \in AppendedIn(outcome.value) :
          /\ IsToolCallMsg(outcome.value[p])
          /\ Len(outcome.value[p].tool_calls) = 2
          /\ outcome.value[p].tool_calls[1].id # outcome.value[p].tool_calls[2].id

\* C2: if the first response has no tool calls, process_query returns the
\* prior history, the user message and one assistant message with the text of
\* the response, after one chat_completion call and no tool execution.
NoToolAnswerC2 ==
    (outcome.kind = "return" /\ turns = 0) =>
        LET text == IF lastResp.choices = <<>> THEN ""
                    ELSE IF lastResp.choices[1].content = None THEN ""
                    ELSE lastResp.choices[1].content
        IN /\ outcome.value = callerMessages \o
                                 << [role |-> "user", content |-> userQuery],
                                    [role |-> "assistant", content |-> text] >>
           /\ llmCalls = 1
           /\ execLog = <<>>

\* a direct answer with text was returned on top of a prior history
DirectAnswerOnHistoryC2 ==
    /\ outcome.kind = "return"
    /\ turns = 0
    /\ callerMessages # <<>>
    /\ lastResp.choices # <<>>
    /\ lastResp.choices[1].content = "answer"

\* the tool calls (id, name, arguments) of an appended assistant message
CallsOfMessage(m) ==
    [k \in 1..Len(m.tool_calls) |->
        [id |-> m.tool_calls[k].id,
         name |-> m.tool_calls[k].function.name,
         arguments |-> m.tool_calls[k].function.arguments]]

\* the calls handed to the registry in turn t
ExecutedInTurn(t) ==
    LET InTurn(e) == e.turn = t
        log == SelectSeq(execLog, InTurn)
    IN [i \in 1..Len(log) |-> log[i].call]

\* the appended assistant tool-call messages, one per turn
TurnMessages ==
    SelectSeq(SubSeq(messages, Len(callerMessages) + 1, Len(messages)), IsToolCallMsg)

\* C3: every tool call of a turn goes to the registry exactly once, in the
\* order issued, at most one execution is in flight, and chat_completion is
\* not called again before all calls of the turn have returned.
ToolsRunOnceInOrderC3 ==
    /\ inFlight <= 1
    /\ turns > 0 =>
          /\ Len(ExecutedInTurn(turns)) <= Len(extracted_tool_calls)
          /\ ExecutedInTurn(turns) = SubSeq(extracted_tool_calls, 1, Len(ExecutedInTurn(turns)))
    /\ pc \in {"llm", "returned"} =>
          /\ inFlight = 0
          /\ Len(TurnMessages) = turns
          /\ \A t \in 1..turns : ExecutedInTurn(t) = CallsOfMessage(TurnMessages[t])
          /\ turns > 0 => Len(tool_results) = Len(extracted_tool_calls)
    /\ \A t \in 1..(turns - 1) : ExecutedInTurn(t) = CallsOfMessage(TurnMessages[t])
    /\ \A i \in DOMAIN execLog : execLog[i].turn \in 1..turns

\* chat_completion was called again after a turn of two different calls
SecondCompletionAfterTwoCallsC3 ==
    /\ pc = "llm"
    /\ turns >= 1
    /\ Len(extracted_tool_calls) = 2
    /\ extracted_tool_calls[1] # extracted_tool_calls[2]

\* C4: when chat_completion, the argument parsing or a tool execution raises,
\* process_query raises an AgenticException and hands no message list back.
FailureRaisesAgenticC4 ==
    /\ outcome.cause # None =>
          /\ outcome.kind = "raise"
          /\ outcome.type \in AgenticExceptionTypes
          /\ outcome.value = <<>>
    /\ pc = "raised" => (outcome.kind = "raise" /\ outcome.cause # None)
    /\ outcome.kind = "return" => (pc = "returned" /\ outcome.cause = None)

\* the argument parsing failed after an earlier call of the turn had a result
ParseFailureMidTurnC4 ==
    /\ pc = "raised"
    /\ outcome.cause = "JSONDecodeError"
    /\ Len(tool_results) >= 1

\* C5: every assistant message process_query appends has either text content
\* and no tool calls, or null content and a non-empty list of tool calls.
AssistantShapeC5 ==
    \A p \in AppendedIn(messages) :
        messages[p].role = "assistant" =>
            \/ /\ "tool_calls" \notin DOMAIN messages[p]
               /\ messages[p].content # None
            \/ /\ "tool_calls" \in DOMAIN messages[p]
               /\ messages[p].content = None
               /\ messages[p].tool_calls # <<>>

\* after a tool-call turn the LLM ended the loop with a null content
NullContentAnswerC5 ==
    /\ outcome.kind = "return"
    /\ turns >= 1
    /\ lastResp.choices # <<>>
    /\ lastResp.choices[1].content = None

(***************************************************************************)
(* Property of format_tool_message (specification SpecFormat)              *)
(***************************************************************************)
\* C6: for every tool_calls list, the empty one included, the message that
\* format_tool_message returns has null content if and only if the list is
\* non-empty.
NullContentIffCallsC6 ==
    fmtOut # NoMessage => ((fmtOut.content = None) <=> (fmtIn # <<>>))

(***************************************************************************)
(* Properties of the registry (specification SpecRegistry)                 *)
(***************************************************************************)
NamesOf(seq) == { seq[i].name : i \in DOMAIN seq }

\* the tool most recently passed to _register_tool under this name
LastRegistered(name) ==
    regLog[CHOOSE k \in DOMAIN regLog :
              /\ regLog[k].name = name
              /\ \A l \in DOMAIN regLog : regLog[l].name = name => l <= k]

\* C7: the registry holds one tool per distinct name, the one registered last
\* under that name; registering never raises because of a duplicate, and
\* leaves the entries of other names as they were.
RegistryKeepsLatestC7 ==
    /\ \A i, j \in DOMAIN _tools : _tools[i].name = _tools[j].name => i = j
    /\ NamesOf(get_all_tools(_tools)) = NamesOf(regLog)
    /\ \A i \in DOMAIN _tools : _tools[i] = LastRegistered(_tools[i].name)
    /\ lastOp.op \in {"register_internal", "register_external"} =>
          /\ lastOp.registered # <<>> => lastOp.raised = None
          /\ lastOp.raised # None => _tools = lastOp.before
          /\ \A i \in DOMAIN lastOp.before :
                lastOp.before[i].name \notin NamesOf(lastOp.registered) =>
                    (i \in DOMAIN _tools /\ _tools[i] = lastOp.before[i])

\* a name was registered twice while another name was in the registry
DuplicateRegisteredC7 ==
    /\ Len(_tools) >= 2
    /\ lastOp.op \in {"register_internal", "register_external"}
    /\ NamesOf(lastOp.registered) \cap NamesOf(lastOp.before) # {}
    /\ NamesOf(lastOp.before) \ NamesOf(lastOp.registered) # {}

\* C8: execute_tool with an unregistered name raises the tool-not-found
\* ToolExecutionError, invokes no tool, returns nothing, and leaves the
\* registry as it was.
MissingToolFailsC8 ==
    (lastOp.op = "execute" /\ lastOp.name \notin NamesOf(lastOp.before)) =>
        /\ lastOp.raised = "ToolExecutionError"
        /\ lastOp.message = "Tool " \o lastOp.name \o " not found"
        /\ lastOp.invoked = <<>>
        /\ lastOp.result = None
        /\ _tools = lastOp.before

\* an unregistered name was executed on a registry that holds tools
MissingToolExecutedC8 ==
    /\ lastOp.op = "execute"
    /\ lastOp.name \notin NamesOf(lastOp.before)
    /\ Len(_tools) >= 1

\* C9: whatever the registered tool and the arguments, a failure of
\* execute_tool is a ToolExecutionError.
ExecuteFailsTypedC9 ==
    (lastOp.op = "execute" /\ lastOp.raised # None) => lastOp.raised = "ToolExecutionError"

(***************************************************************************)
(* Properties of the embedding client (specification SpecEmbed)            *)
(***************************************************************************)
\* C10: any two successive requests sent to the embedding API are at least
\* 1/rate_limit seconds apart, whichever calls they belong to.
DispatchSpacingC10 ==
    Len(dispatchLog) = 2 =>
        dispatchLog[2] - dispatchLog[1] >= _min_request_interval(rate_limit)

\* the API calls dispatched (request sent) and not yet completed
InFlightCalls == { c \in CallKeys : apiCalls[c].pc = "posted" }

\* C11: at every instant the number of API calls in flight on the client,
\* over all embed invocations, is at most rate_limit.
InFlightBoundedC11 == Cardinality(InFlightCalls) <= rate_limit

\* C12: an embed that returned has one result per input item, in input
\* order, the i-th result carrying the id of the i-th item.
ResultPerItemC12 ==
    \A e \in EmbedIds :
        embeds[e].pc = "done" =>
            /\ Len(embeds[e].results) = Len(embeds[e].items)
            /\ \A i \in 1..Len(embeds[e].items) :
                  /\ embeds[e].results[i].id = embeds[e].items[i].id
                  /\ embeds[e].results[i].single_vector.id = embeds[e].items[i].id
                  /\ embeds[e].results[i].multi_vectors.id = embeds[e].items[i].id

\* an embed of two items with different ids has returned
TwoItemsEmbeddedC12 ==
    \E e \in EmbedIds :
        /\ embeds[e].pc = "done"
        /\ Len(embeds[e].items) = 2
        /\ embeds[e].items[1].id # embeds[e].items[2].id

\* C13: embed of an empty list raises EmbeddingError without starting an API
\* call or entering the rate limiter; with no API key there is no client and
\* no request is ever sent.
FailFastC13 ==
    /\ \A e \in EmbedIds :
          (embeds[e].pc # "idle" /\ embeds[e].items = <<>>) =>
              /\ embeds[e].pc = "failed"
              /\ embeds[e].raised = "EmbeddingError"
              /\ embeds[e].item = 0
              /\ \A k \in CallKinds : apiCalls[<<e, k>>].pc = "none"
              /\ \A i \in DOMAIN semWaiters : semWaiters[i][1] # e
    /\ api_key = None =>
          /\ dispatchLog = <<>>
          /\ \A e \in EmbedIds : embeds[e].pc = "idle"
          /\ \A c \in CallKeys : apiCalls[c].pc = "none"

\* embed was called with an empty list
EmptyEmbedCalledC13 ==
    \E e \in EmbedIds : embeds[e].pc # "idle" /\ embeds[e].items = <<>>

(***************************************************************************)
(* Properties of the retry policy (specification SpecRetry)                *)
(***************************************************************************)
\* every attempt so far failed with a transport or HTTP error
AllAttemptsFailed == \A i \in DOMAIN attemptLog : attemptLog[i] # "ok"

\* C14: when every attempt fails, the decorated embed raises EmbeddingError
\* after exactly max_retries attempts (the client's max_retries): it neither
\* raises earlier nor goes on after that many.
AttemptsEqualMaxRetriesC14 ==
    /\ rtPc = "raised" => (rtRaised = "EmbeddingError" /\ Len(attemptLog) = max_retries)
    /\ (AllAttemptsFailed /\ Len(attemptLog) >= max_retries) => rtPc = "raised"

(***************************************************************************)
(* Properties of the retrieval pipeline (specification SpecRetrieval)      *)
(***************************************************************************)
ChunkIdsOf(seq) == { seq[i].chunk_id : i \in DOMAIN seq }

\* position of the candidate with this chunk id in a list of distinct ids
PosOf(seq, cid) == CHOOSE i \in DOMAIN seq : seq[i].chunk_id = cid

\* C15: a retrieve_chunks call that returns gives one entry per query, the
\* i-th entry made of the candidates the index found for the i-th query
\* (and naming that query).
EntryPerQueryC15 ==
    rq.pc = "returned" =>
        /\ Len(rq.results_by_query) = Len(rq.queries)
        /\ \A i \in DOMAIN rq.queries :
              LET entry == rq.results_by_query[i] IN
              /\ ChunkIdsOf(entry.chunks) \subseteq ChunkIdsOf(annOp.result[i])
              /\ (entry.chunks = <<>>) <=> (annOp.result[i] = <<>>)
              /\ entry.type = "dict" => entry.query = rq.queries[i]

\* two queries with different candidates were answered
TwoQueriesAnsweredC15 ==
    /\ rq.pc = "returned"
    /\ Len(rq.queries) = 2
    /\ annOp.result[1] # <<>>
    /\ annOp.result[2] # <<>>
    /\ ChunkIdsOf(annOp.result[1]) # ChunkIdsOf(annOp.result[2])

\* C16: when the index finds no candidates for a query of the batch,
\* retrieve_chunks still returns, and that query's entry has the shape of
\* the other entries, with an empty chunk list.
EmptyAnnEntryShapeC16 ==
    rq.pc = "returned" =>
        \A i \in DOMAIN rq.queries :
            annOp.result[i] = <<>> =>
                rq.results_by_query[i] =
                    [type |-> "dict", query |-> rq.queries[i], chunks |-> <<>>]

\* C17: when the pipeline finds no chunks for the tool's query,
\* RetrieveDocumentsTool.execute returns "No results found for query: <query>".
NoResultsTextC17 ==
    (rq.viaTool /\ rq.pc = "returned"
       /\ \A i \in DOMAIN rq.results_by_query : rq.results_by_query[i].chunks = <<>>) =>
        /\ toolOut.raised = None
        /\ toolOut.result = NoResultsText(rq.queries[1])

\* C18: the list rerank returns is in non-increasing order of score, and
\* candidates with equal scores are in their input order.
RerankSortedStableC18 ==
    rerankLog # NoRerank =>
        \A i, j \in DOMAIN rerankLog.reranked :
            i < j =>
                /\ rerankLog.reranked[i].score >= rerankLog.reranked[j].score
                /\ rerankLog.reranked[i].score = rerankLog.reranked[j].score =>
                      PosOf(rerankLog.candidates, rerankLog.reranked[i].chunk_id)
                        < PosOf(rerankLog.candidates, rerankLog.reranked[j].chunk_id)

\* a rerank of candidates whose scores all changed ended with two equal scores
RerankTieC18 ==
    /\ rerankLog # NoRerank
    /\ \E i, j \in DOMAIN rerankLog.reranked :
          /\ i < j
          /\ rerankLog.reranked[i].score = rerankLog.reranked[j].score
          /\ rerankLog.reranked[i].chunk_id \in DOMAIN mvIndex
          /\ rerankLog.reranked[j].chunk_id \in DOMAIN mvIndex

OneIndexCallC20 ==
    annOp.op = "retrieve" =>
        /\ annOp.query_vectors # <<>> => annOp.calls = 1
        /\ annOp.query_vectors = <<>> => (annOp.raised = "RetrievalError" /\ annOp.calls = 0)
        /\ annOp.index_raised => annOp.raised = "RetrievalError"
        /\ annOp.raised = None => Len(annOp.result) = Len(annOp.query_vectors)

\* a batch of two query vectors was looked up
BatchOfTwoRetrievedC20 ==
    /\ annOp.op = "retrieve"
    /\ Len(annOp.query_vectors) = 2
    /\ annOp.raised = None

\* the chunk ids and scores of a list of results or page chunks, in order
IdScores(seq) == [k \in DOMAIN seq |-> <<seq[k].chunk_id, seq[k].score>>]

\* C21: with use_reranking a query's chunks are the first top_k_rerank
\* entries of the reranked list (so at most top_k_rerank, in non-increasing
\* score order); without it they are the first top_k_ann ANN candidates in
\* ANN order, and the reranker is never invoked.
TruncationC21 ==
    rq.pc = "returned" =>
        /\ \A i \in DOMAIN rq.queries :
              LET chunks == rq.results_by_query[i].chunks
                  cands  == annOp.result[i] IN
              IF rq.use_reranking
              THEN /\ Len(chunks) = Min(rq.top_k_rerank, Len(cands))
                   /\ \A k \in DOMAIN chunks :
                         k > 1 => chunks[k - 1].score >= chunks[k].score
                   /\ (/\ cands = rerankLog.candidates
                       /\ QueryMultiVectors(rq.queries[i]) = rerankLog.query_multi_vectors) =>
                         IdScores(chunks) = IdScores(Take(rerankLog.reranked, rq.top_k_rerank))
              ELSE IdScores(chunks) = IdScores(Take(cands, rq.top_k_ann))
        /\ ~rq.use_reranking => (rerankLog = NoRerank /\ rq.reranks = 0)

\* a reranked list of two was cut to its first entry, which the index had
\* ranked second
RerankedCutC21 ==
    /\ rq.pc = "returned"
    /\ rq.use_reranking
    /\ rq.top_k_rerank = 1
    /\ \E i \in DOMAIN rq.queries :
          /\ Len(annOp.result[i]) = 2
          /\ annOp.result[i] = rerankLog.candidates
          /\ QueryMultiVectors(rq.queries[i]) = rerankLog.query_multi_vectors
          /\ rq.results_by_query[i].chunks[1].chunk_id = annOp.result[i][2].chunk_id

LoopEndsOnFinalAnswerC23 ==
    /\ pc = "returned" => (~has_tool_calls(lastResp) /\ llmCalls = turns + 1)
    /\ pc = "raised" => outcome.cause \in {"LLMError", "ToolExecutionError", "JSONDecodeError"}
    /\ (pc = "llm" /\ turns < MaxTurns) => ENABLED ChatCompletionToolCalls

\* a final answer came after two tool-call turns
ReturnedAfterTwoTurnsC23 == pc = "returned" /\ turns = 2 /\ llmCalls = 3

\* C24: over the process_query calls of one orchestrator the tool list is
\* formatted at most once, and every chat_completion call is given that
\* one formatted list.
ToolsFormattedOnceC24 ==
    /\ toolsLog.format_calls <= 1
    /\ Cardinality(toolsLog.passed) <= 1
    /\ toolsLog.runs > 0 => toolsLog.passed = {_formatted_tools[1]}

\* a second process_query call has gone through a tool-call turn
SecondRunSecondCallC24 == toolsLog.runs = 2 /\ llmCalls = 2 /\ pc = "llm"

\* C25: when a tool execution fails, process_query raises at once: every
\* call of the turn up to the failed one was handed to the registry once,
\* the failed one last, no later call of the turn was, and no
\* chat_completion call followed.
ToolFailureSurfacesC25 ==
    (pc = "raised" /\ outcome.cause = "ToolExecutionError") =>
        LET InTurn(x) == x.turn = turns
            log == SelectSeq(execLog, InTurn) IN
        /\ toolIdx \in DOMAIN extracted_tool_calls
        /\ Len(log) = toolIdx
        /\ \A i \in DOMAIN log : log[i].call = extracted_tool_calls[i]
        /\ Len(tool_results) = toolIdx - 1
        /\ llmCalls = turns
        /\ outcome.type = "AgenticException"

\* the first of two tool calls failed
FirstOfTwoFailedC25 ==
    /\ pc = "raised"
    /\ outcome.cause = "ToolExecutionError"
    /\ toolIdx = 1
    /\ Len(extracted_tool_calls) = 2

\* C26: executing an MCP tool while the client is not connected (never
\* connected, failed connection attempt, cleaned up) raises
\* ToolExecutionError without any call_tool on the session.
DisconnectedMcpFailsC26 ==
    (/\ lastOp.op = "execute"
     /\ lastOp.invoked # <<>>
     /\ \E i \in DOMAIN _tools : _tools[i].obj = lastOp.invoked[1] /\ _tools[i].kind = "mcp"
     /\ ~Connected(session)) =>
        /\ lastOp.raised = "ToolExecutionError"
        /\ lastOp.session_calls = 0

(***************************************************************************)
(* Properties of ingestion (specification SpecIngest)                      *)
(***************************************************************************)
Finished(c) == ing[c].pc \in {"returned", "raised"}

\* C27: a call of ingest_unprocessed_documents (running alone) attempts
\* every document it listed, earlier failures notwithstanding; each failed
\* document ends with status error, each successful one with status
\* processed, and the two counters add up to the number of documents listed.
IngestAttemptsAllC27 ==
    \A c \in Callers :
        (/\ Finished(c)
         /\ ing[c].unprocessed_documents # <<>>
         /\ \A o \in Callers \ {c} : ing[o].pc = "idle") =>
            LET call == ing[c]
                failed == { call.result.failed_documents[i] :
                              i \in DOMAIN call.result.failed_documents } IN
            /\ call.attempted = call.unprocessed_documents
            /\ \A i \in DOMAIN call.unprocessed_documents :
                  LET d == call.unprocessed_documents[i] IN
                  docStatus[d] = IF d \in failed THEN "error" ELSE "processed"
            /\ call.result.num_documents_just_processed + call.result.num_documents_failed
                  = Len(call.unprocessed_documents)

\* C30: of two concurrent ingest_unprocessed_documents calls at most one
\* ingests a given document, and once both have finished no document they
\* handled is left in status processing.
NoDoubleIngestC30 ==
    /\ \A d \in DocIds : Cardinality(completedBy[d]) <= 1
    /\ (\A c \in Callers : Finished(c)) =>
          \A c \in Callers : \A i \in DOMAIN ing[c].attempted :
              docStatus[ing[c].attempted[i]] # "processing"

(***************************************************************************)
(* Properties of the batch processor (specification SpecBatch)             *)
(***************************************************************************)
\* C29: process_batch returns one result per item, the i-th being the
\* result of the i-th item, whatever the completion order and whatever
\* show_progress is, and never has more than max_concurrent invocations of
\* process_fn running.
BatchResultsInOrderC29 ==
    /\ bp.peak <= bp.max_concurrent
    /\ Cardinality(InSemaphore(bp)) <= bp.max_concurrent
    /\ bp.pc = "returned" =>
          /\ Len(bp.results) = Len(bp.items)
          /\ \A i \in DOMAIN bp.items : bp.results[i] = process_fn(bp.items[i])

\* the caller's list as it is now: what was passed in, unless the local
\* `messages` is that very object and every append went to it
CallerListNow == IF messagesRef = "caller" THEN messages ELSE callerMessages

\* C28: process_query leaves the caller's message list as it was, whether
\* it returns or raises, and the history it returns is another list object.
CallerListUntouchedC28 ==
    pc \in {"llm", "tools", "tool", "returned", "raised"} =>
        /\ CallerListNow = callerMessages
        /\ Len(CallerListNow) = Len(callerMessages)
        /\ messagesRef # "caller"
        /\ pc = "returned" => (outcome.value = messages /\ Len(messages) > Len(callerMessages))

\* a call with a non-empty history raised after a tool-call turn had
\* appended to the local list
RaisedWithHistoryC28 ==
    /\ pc = "raised"
    /\ callerMessages # <<>>
    /\ Len(messages) > Len(callerMessages) + 1

====
